---- MODULE Spec2Model ----
(***************************************************************************)
(* State-machine model of the duplicate-file detector of                   *)
(* src/mcp-bearer-token/whatsapp_duplicate.py: DuplicateFileFinder,        *)
(* WhatsAppOptimizedDuplicateFinder and DuplicateFinderSession.            *)
(*                                                                         *)
(* Python values are represented as follows.                               *)
(*   str    a sequence of one-character strings, <<"a", ".", "p">>         *)
(*   bytes  a sequence of integers 0..255                                  *)
(*   None   the value None below (distinct from every str)                 *)
(*   dict   an insertion-ordered sequence of <<key, value>> pairs          *)
(*   a file_info dict is an object: it lives in the heap `files` and the   *)
(*   three maps of the program hold references (heap indices) to it, as    *)
(*   the Python maps all hold the same dict object.                        *)
(***************************************************************************)
EXTENDS Integers, Sequences, FiniteSets, TLC

\* ------------------------------------------------------------------------
\* Bounds of the model (not program constants).

\* Largest number of files a session of specification Spec accepts.
MaxFiles == 2

\* Largest number of files accepted under SpecExact, SpecImages and
\* SpecClusters.
MaxExactFiles == 4
MaxImages == 3
MaxClusterImages == 4

\* ------------------------------------------------------------------------
\* Python values.

None == <<"None">>

\* A character that is not ASCII (any code point above 127).
NonAscii == "U+00E9"

Range(s) == {s[i] : i \in DOMAIN s}

RECURSIVE Concat(_)
\* itertools.chain / list.extend over a sequence of sequences.
Concat(ss) == IF ss = <<>> THEN <<>> ELSE Head(ss) \o Concat(Tail(ss))

\* [x] * n
Repeat(x, n) == [i \in 1..n |-> x]

\* s[i:] and s[:i] with 0-based Python indices.
SliceFrom(s, i) == SubSeq(s, i + 1, Len(s))
SliceTo(s, i) == SubSeq(s, 1, i)

\* str.startswith, substring test and str.rfind (0-based, -1 when absent).
startswith(s, p) == Len(s) >= Len(p) /\ SubSeq(s, 1, Len(p)) = p
contains(s, p) == \E i \in 0..(Len(s) - Len(p)) : SubSeq(s, i + 1, i + Len(p)) = p
rfind(s, c) == IF \E i \in DOMAIN s : s[i] = c
               THEN (CHOOSE i \in DOMAIN s : s[i] = c /\ \A j \in DOMAIN s : s[j] = c => j <= i) - 1
               ELSE -1

UpperChars == <<"A","B","C","D","E","F","G","H","I","J","K","L","M",
                "N","O","P","Q","R","S","T","U","V","W","X","Y","Z">>
LowerChars == <<"a","b","c","d","e","f","g","h","i","j","k","l","m",
                "n","o","p","q","r","s","t","u","v","w","x","y","z">>
DigitChars == <<"0","1","2","3","4","5","6","7","8","9">>

IndexOf(alphabet, c) == CHOOSE i \in DOMAIN alphabet : alphabet[i] = c

\* str.lower
lower(s) == [i \in DOMAIN s |-> IF s[i] \in Range(UpperChars)
                                THEN LowerChars[IndexOf(UpperChars, s[i])]
                                ELSE s[i]]

\* ------------------------------------------------------------------------
\* Insertion-ordered dict.

DictValues(d) == [i \in DOMAIN d |-> d[i][2]]
DictHas(d, k) == \E i \in DOMAIN d : d[i][1] = k
DictGet(d, k) == d[CHOOSE i \in DOMAIN d : d[i][1] = k][2]
\* d[k] = v: a present key keeps its position, a new key goes last.
DictSet(d, k, v) == IF DictHas(d, k)
                    THEN [i \in DOMAIN d |-> IF d[i][1] = k THEN <<k, v>> ELSE d[i]]
                    ELSE Append(d, <<k, v>>)

\* Mutant of DictAppend: the record goes to the front of its bucket.
DictAppend_front(d, k, v) == IF DictHas(d, k)
                             THEN DictSet(d, k, <<v>> \o DictGet(d, k))
                             ELSE Append(d, <<k, <<v>>>>)

\* defaultdict(list): d[k].append(v)
DictAppend(d, k, v) == IF DictHas(d, k)
                       THEN DictSet(d, k, Append(DictGet(d, k), v))
                       ELSE Append(d, <<k, <<v>>>>)

\* ------------------------------------------------------------------------
\* base64.b64decode(s) with its default validate=False, as CPython's
\* binascii.a2b_base64 does it in non-strict mode.

B64Alphabet == UpperChars \o LowerChars \o DigitChars \o <<"+", "/">>
B64Pad == "="

\* table_a2b_base64: the 6-bit value of an alphabet character.
B64Value(c) == IndexOf(B64Alphabet, c) - 1

\* One turn of the decoder's loop over the input, on the character c. The
\* decoder's state: quad_pos, leftchar, pads, the bytes written, and done
\* (the goto done, after which nothing more is read).
a2b_step(st, c) ==
    IF st.done THEN st
    ELSE IF c = B64Pad
         THEN IF st.quad_pos >= 2 /\ st.quad_pos + st.pads + 1 >= 4
              THEN [st EXCEPT !.pads = @ + 1, !.done = TRUE]
              ELSE IF st.quad_pos >= 2 THEN [st EXCEPT !.pads = @ + 1] ELSE st
    ELSE IF c \notin Range(B64Alphabet) THEN st
    ELSE LET v == B64Value(c)
         IN CASE st.quad_pos = 0 ->
                   [st EXCEPT !.pads = 0, !.quad_pos = 1, !.leftchar = v]
              [] st.quad_pos = 1 ->
                   [st EXCEPT !.pads = 0, !.quad_pos = 2,
                              !.out = Append(@, st.leftchar * 4 + v \div 16),
                              !.leftchar = v % 16]
              [] st.quad_pos = 2 ->
                   [st EXCEPT !.pads = 0, !.quad_pos = 3,
                              !.out = Append(@, st.leftchar * 16 + v \div 4),
                              !.leftchar = v % 4]
              [] st.quad_pos = 3 ->
                   [st EXCEPT !.pads = 0, !.quad_pos = 0,
                              !.out = Append(@, st.leftchar * 64 + v),
                              !.leftchar = 0]

\* The loop over s[lo..hi], left to right, from the state st: the first
\* half of the range, then (unless the decoder is done) the second.
RECURSIVE a2b_scan(_, _, _, _)
a2b_scan(st, s, lo, hi) ==
    IF lo > hi THEN st
    ELSE IF lo = hi THEN a2b_step(st, s[lo])
    ELSE LET mid == (lo + hi) \div 2
             left == a2b_scan(st, s, lo, mid)
         IN IF left.done THEN left ELSE a2b_scan(left, s, mid + 1, hi)

\* The result of the call: [ok |-> TRUE, data |-> bytes], or ok = FALSE when it
\* raises (a str with a non-ASCII character: ValueError; a quad left
\* incomplete at the end of the input: binascii.Error).
a2b_base64(s) ==
    IF \E i \in DOMAIN s : s[i] = NonAscii THEN [ok |-> FALSE, data |-> <<>>]
    ELSE LET st0 == [quad_pos |-> 0, leftchar |-> 0, pads |-> 0, out |-> <<>>,
                     done |-> FALSE]
             st == a2b_scan(st0, s, 1, Len(s))
         IN IF ~st.done /\ st.quad_pos # 0 THEN [ok |-> FALSE, data |-> <<>>]
            ELSE [ok |-> TRUE, data |-> st.out]

\* ------------------------------------------------------------------------
\* The file contents and transport payloads the model submits.

\* n bytes of value b.
Text(b, n) == Repeat(b, n)

\* A binary greyscale PGM image ("P5", maxval 255) of side x side pixels:
\* the pixels numbered in `ones` are white (255), the others black (0).
PgmHeader(side) ==
    <<80, 53, 10>> \o (IF side = 16 THEN <<49, 54, 32, 49, 54>> ELSE <<56, 32, 56>>)
                   \o <<10, 50, 53, 53, 10>>
Pgm(side, ones) ==
    PgmHeader(side) \o [i \in 1..(side * side) |-> IF i \in ones THEN 255 ELSE 0]

\* RFC 4648 encoding of a byte sequence (base64.b64encode), used to write
\* the payloads a client sends.
B64Encode(b) ==
    LET n == Len(b)
        byte(i) == IF i <= n THEN b[i] ELSE 0
        ch(v) == B64Alphabet[v + 1]
    IN [k \in 1..(4 * ((n + 2) \div 3)) |->
          LET g == 3 * ((k - 1) \div 4)
              j == (k - 1) % 4
          IN CASE j = 0 -> ch(byte(g + 1) \div 4)
               [] j = 1 -> ch((byte(g + 1) % 4) * 16 + byte(g + 2) \div 16)
               [] j = 2 -> IF g + 2 > n THEN B64Pad
                           ELSE ch((byte(g + 2) % 16) * 4 + byte(g + 3) \div 64)
               [] j = 3 -> IF g + 3 > n THEN B64Pad ELSE ch(byte(g + 3) % 64)]

\* The file contents of the model.
Contents ==
    {Text(65, 0), Text(65, 3), Text(65, 99), Text(65, 100), Text(65, 102), Text(66, 102)}
    \cup {Pgm(side, ones) : side \in {8, 16}, ones \in {{}, {1}, {1, 2}, {1, 2, 3}}}

\* Payloads that are not the RFC 4648 encoding of anything: one character
\* too many, a character outside the alphabet (in front of, or inside, a
\* well-formed encoding), a character that is not ASCII, missing padding.
Overlong(c) == B64Encode(c) \o <<"Q">>
Junked(c) == <<"!">> \o B64Encode(c)
JunkedInside(c) == SliceTo(B64Encode(c), 2) \o <<"\n">> \o SliceFrom(B64Encode(c), 2)
NotAscii(c) == B64Encode(c) \o <<NonAscii>>
Unpadded(c) == LET e == B64Encode(c)
               IN SelectSeq(e, LAMBDA x : x # B64Pad)

AllPayloads ==
    {B64Encode(c) : c \in Contents}
    \cup {Overlong(Text(65, 102)), Junked(Text(65, 102)), JunkedInside(Text(65, 102)),
          NotAscii(Text(65, 102)), Unpadded(Text(65, 100)), Junked(Pgm(16, {1})),
          Junked(Pgm(8, {1}))}

\* RFC 4648: a string is valid base64 when it is made of alphabet characters
\* only, its length is a multiple of 4, and padding, if any, is one or two
\* "=" at the very end.
IsValidBase64(s) ==
    /\ Len(s) % 4 = 0
    /\ \A i \in DOMAIN s :
          \/ s[i] \in Range(B64Alphabet)
          \/ s[i] = B64Pad /\ i >= Len(s) - 1 /\ \A j \in i..Len(s) : s[j] = B64Pad

\* A table of f over a finite set of arguments, and its lookup. The tables
\* below are computed once; the operators they tabulate are the model of the
\* code.
Lookup(table, x) == (CHOOSE p \in table : p[1] = x)[2]

B64Table == {<<s, a2b_base64(s)>> : s \in AllPayloads}

\* base64.b64decode(base64_data)
b64decode(base64_data) == Lookup(B64Table, base64_data)

ValidTable == {<<s, IsValidBase64(s)>> : s \in AllPayloads}
ValidBase64(base64_data) == Lookup(ValidTable, base64_data)


\* ------------------------------------------------------------------------
\* hashlib.md5(file_data).hexdigest(): the true MD5 digests of the model's
\* contents (MD5 itself is not computed here).

MD5Table ==
    {  <<Text(65, 0),
         <<"d","4","1","d","8","c","d","9","8","f","0","0","b","2","0","4","e","9","8","0","0","9","9","8","e","c","f","8","4","2","7","e">>>>,
       <<Text(65, 3),
         <<"e","1","f","a","f","f","b","3","e","6","1","4","e","6","c","2","f","b","a","7","4","2","9","6","9","6","2","3","8","6","b","7">>>>,
       <<Text(65, 99),
         <<"a","0","8","4","9","6","2","9","1","9","9","3","3","d","4","5","0","3","6","a","a","b","3","8","9","1","1","9","b","f","3","9">>>>,
       <<Text(65, 100),
         <<"8","a","d","c","5","9","3","7","e","6","3","5","f","6","c","9","a","f","6","4","6","f","0","b","2","3","5","6","0","f","a","e">>>>,
       <<Text(65, 102),
         <<"3","7","a","4","d","e","6","f","0","b","a","f","f","e","4","b","1","7","3","e","4","b","8","9","5","2","f","7","5","a","1","b">>>>,
       <<Text(66, 102),
         <<"b","b","d","5","1","5","c","a","a","f","6","d","4","d","d","2","7","5","9","9","8","3","e","b","0","4","6","b","e","7","a","b">>>>,
       <<Pgm(8, {}),
         <<"6","b","f","4","2","1","d","d","e","1","b","a","f","b","1","7","b","7","c","9","0","d","7","9","3","9","7","6","3","1","0","3">>>>,
       <<Pgm(8, {1}),
         <<"8","d","5","4","f","c","7","4","f","4","1","5","6","8","b","0","4","a","8","9","8","1","6","4","f","f","f","5","1","f","1","1">>>>,
       <<Pgm(8, {1, 2}),
         <<"a","9","f","d","e","0","6","7","b","1","0","4","7","3","2","3","a","d","f","8","a","0","0","f","d","2","3","6","8","1","5","6">>>>,
       <<Pgm(8, {1, 2, 3}),
         <<"9","5","6","f","2","4","9","f","3","e","6","8","7","6","c","4","9","c","9","0","f","1","3","c","b","e","0","9","6","8","8","0">>>>,
       <<Pgm(16, {}),
         <<"8","c","d","a","0","0","7","f","a","3","5","2","d","8","a","d","1","0","1","f","c","a","0","b","a","f","d","3","3","d","3","b">>>>,
       <<Pgm(16, {1}),
         <<"9","4","f","9","a","6","b","9","f","6","d","d","b","d","b","c","4","8","6","c","a","9","c","5","8","e","2","9","8","6","9","b">>>>,
       <<Pgm(16, {1, 2}),
         <<"a","d","b","6","5","d","a","4","b","9","0","b","b","6","8","1","7","c","6","6","2","d","7","4","4","3","3","7","a","9","d","5">>>>,
       <<Pgm(16, {1, 2, 3}),
         <<"9","d","6","4","d","5","6","4","7","9","4","1","8","b","4","0","f","7","e","1","3","4","9","5","7","d","1","b","5","8","c","2">>>> }

\* DuplicateFileFinder.calculate_file_hash
calculate_file_hash(file_data) == Lookup(MD5Table, file_data)

\* DuplicateFileFinder.get_file_size
get_file_size(file_data) == Len(file_data)

\* ------------------------------------------------------------------------
\* PIL: Image.open, convert, resize, getdata, for the images of the model
\* (binary PGM). Image.open raises for bytes that are no image.

IsWhitespace(b) == b \in {9, 10, 11, 12, 13, 32}
IsDigit(b) == b \in 48..57

RECURSIVE SkipWhitespace(_, _)
SkipWhitespace(data, i) ==
    IF i <= Len(data) /\ IsWhitespace(data[i]) THEN SkipWhitespace(data, i + 1) ELSE i

RECURSIVE ReadDigits(_, _, _)
ReadDigits(data, i, acc) ==
    IF i <= Len(data) /\ IsDigit(data[i])
    THEN ReadDigits(data, i + 1, 10 * acc + (data[i] - 48))
    ELSE [value |-> acc, next |-> i]

\* The decimal header token at or after position i; next = first = i when
\* there is none.
ReadToken(data, i) ==
    LET first == SkipWhitespace(data, i)
        tok == ReadDigits(data, first, 0)
    IN [value |-> tok.value, first |-> first, next |-> tok.next]

\* Image.open(io.BytesIO(image_data)), loaded: the size and the grey levels
\* in raster order, or ok = FALSE when PIL raises.
ImageOpen(data) ==
    LET failed == [ok |-> FALSE, width |-> 0, height |-> 0, pixels |-> <<>>]
    IN IF Len(data) < 2 \/ SubSeq(data, 1, 2) # <<80, 53>> THEN failed
       ELSE LET w == ReadToken(data, 3)
                h == ReadToken(data, w.next)
                m == ReadToken(data, h.next)
                start == m.next + 1
                n == w.value * h.value
            IN IF \/ w.next = w.first \/ h.next = h.first \/ m.next = m.first
                  \/ m.value # 255 \/ n = 0
                  \/ m.next > Len(data) \/ ~IsWhitespace(data[m.next])
                  \/ Len(data) - start + 1 < n
               THEN failed
               ELSE [ok |-> TRUE, width |-> w.value, height |-> h.value,
                     pixels |-> SubSeq(data, start, start + n - 1)]

\* image.convert('RGB') of a greyscale image, and image.convert('L') of an
\* RGB one (ITU-R 601-2 luma, as PIL rounds it).
ConvertRGB(img) == [img EXCEPT !.pixels = [i \in DOMAIN @ |-> <<@[i], @[i], @[i]>>]]
ConvertL(img) ==
    [img EXCEPT !.pixels =
        [i \in DOMAIN @ |->
            (@[i][1] * 19595 + @[i][2] * 38470 + @[i][3] * 7471 + 32768) \div 65536]]

\* image.resize((side, side), LANCZOS): PIL returns a copy when the image has
\* that size already. Resampling an image of another size is not modelled;
\* NeedsResampling tells the inputs the model leaves out for that reason.
Resize(img, side) == CASE img.width = side /\ img.height = side -> img

RECURSIVE SumRange(_, _, _)
SumRange(s, lo, hi) ==
    IF lo > hi THEN 0
    ELSE IF lo = hi THEN s[lo]
    ELSE SumRange(s, lo, (lo + hi) \div 2) + SumRange(s, (lo + hi) \div 2 + 1, hi)

\* sum(pixels)
sum(pixels) == SumRange(pixels, 1, Len(pixels))

\* avg = sum(pixels) / len(pixels);
\* ''.join('1' if pixel > avg else '0' for pixel in pixels)
hash_bits(pixels) ==
    LET total == sum(pixels)
    IN [i \in DOMAIN pixels |-> IF pixels[i] * Len(pixels) > total THEN "1" ELSE "0"]

\* The side of the grid the two finders resize to.
BaseGrid == 8
WhatsAppGrid == 16

\* The try block of DuplicateFileFinder.calculate_image_hash for the opened
\* image, and its except clause when Image.open has raised.
hash_of_image(image, image_data) ==
    IF ~image.ok THEN calculate_file_hash(image_data)
    ELSE hash_bits(Resize(image, BaseGrid).pixels)

\* DuplicateFileFinder.calculate_image_hash
DuplicateFileFinder_calculate_image_hash(image_data) ==
    hash_of_image(ImageOpen(image_data), image_data)

\* The same of WhatsAppOptimizedDuplicateFinder.calculate_image_hash.
WhatsApp_hash_of_image(image, image_data) ==
    IF ~image.ok THEN calculate_file_hash(image_data)
    ELSE hash_bits(ConvertL(Resize(ConvertRGB(image), WhatsAppGrid)).pixels)

\* WhatsAppOptimizedDuplicateFinder.calculate_image_hash
WhatsApp_calculate_image_hash(image_data) ==
    WhatsApp_hash_of_image(ImageOpen(image_data), image_data)

\* TRUE when hashing the bytes with the finder of class wa would resample:
\* they are an image of another size than the finder's grid.
HasOtherSize(image, side) == image.ok /\ ~(image.width = side /\ image.height = side)
NeedsResampling(wa, data) ==
    HasOtherSize(ImageOpen(data), IF wa THEN WhatsAppGrid ELSE BaseGrid)

ImageHashTable ==
    {<<<<wa, c>>, IF wa THEN WhatsApp_calculate_image_hash(c)
                        ELSE DuplicateFileFinder_calculate_image_hash(c)>> :
        <<wa, c>> \in {x \in BOOLEAN \X Contents : ~NeedsResampling(x[1], x[2])}}

\* self.calculate_image_hash(image_data), dispatched on the finder's class
\* (self.wa: a WhatsAppOptimizedDuplicateFinder).
calculate_image_hash(self, image_data) == Lookup(ImageHashTable, <<self.wa, image_data>>)

\* ------------------------------------------------------------------------
\* DuplicateFileFinder. `self` is the finder object:
\*   [wa |-> it is a WhatsAppOptimizedDuplicateFinder,
\*    file_hashes |-> dict, image_hashes |-> dict]
\* and `heap` the file_info objects created so far; the dicts map a hash
\* to a list of references into the heap.

\* Path(filename).name (the last path component) and .suffix
PathName(filename) == SliceFrom(filename, rfind(filename, "/") + 1)
PathSuffix(filename) ==
    LET name == PathName(filename)
        i == rfind(name, ".")
    IN IF 0 < i /\ i < Len(name) - 1 THEN SliceFrom(name, i) ELSE <<>>

\* DuplicateFileFinder.get_file_extension
get_file_extension(filename) == lower(PathSuffix(filename))

image_extensions ==
    { <<".", "j", "p", "g">>, <<".", "j", "p", "e", "g">>, <<".", "p", "n", "g">>,
      <<".", "g", "i", "f">>, <<".", "b", "m", "p">>, <<".", "t", "i", "f", "f">>,
      <<".", "w", "e", "b", "p">> }

\* DuplicateFileFinder.is_image_file
is_image_file(filename) == get_file_extension(filename) \in image_extensions

\* DuplicateFileFinder.add_file: the finder and the heap after the call,
\* and the reference it returns. (added_at, the wall-clock time of the
\* call, is left out of file_info.)
\* The file_info of add_file as first built, and add_file from there on:
\* perceptual_hash is calculated only for an image.
new_file_info(filename, file_data, file_id) ==
    [filename |-> filename, file_id |-> file_id, hash |-> calculate_file_hash(file_data),
     size |-> get_file_size(file_data), extension |-> get_file_extension(filename),
     is_image |-> is_image_file(filename)]

\* Mutant of index_file_info: the exact-hash index is keyed by the filename.
index_file_info_by_name(self, heap, file_info, perceptual_hash, ref) ==
    IF file_info.is_image
    THEN [self |-> [self EXCEPT
                       !.image_hashes = DictAppend(@, perceptual_hash, ref),
                       !.file_hashes = DictAppend(@, file_info.filename, ref)],
          heap |-> Append(heap, file_info @@ ("perceptual_hash" :> perceptual_hash)),
          ret |-> ref]
    ELSE [self |-> [self EXCEPT !.file_hashes = DictAppend(@, file_info.filename, ref)],
          heap |-> Append(heap, file_info),
          ret |-> ref]

\* Mutant of index_file_info: an image is registered in the perceptual-hash
\* index only.
index_file_info_images_apart(self, heap, file_info, perceptual_hash, ref) ==
    IF file_info.is_image
    THEN [self |-> [self EXCEPT !.image_hashes = DictAppend(@, perceptual_hash, ref)],
          heap |-> Append(heap, file_info @@ ("perceptual_hash" :> perceptual_hash)),
          ret |-> ref]
    ELSE [self |-> [self EXCEPT !.file_hashes = DictAppend(@, file_info.hash, ref)],
          heap |-> Append(heap, file_info),
          ret |-> ref]

index_file_info(self, heap, file_info, perceptual_hash, ref) ==
    IF file_info.is_image
    THEN [self |-> [self EXCEPT
                       !.image_hashes = DictAppend(@, perceptual_hash, ref),
                       !.file_hashes = DictAppend(@, file_info.hash, ref)],
          heap |-> Append(heap, file_info @@ ("perceptual_hash" :> perceptual_hash)),
          ret |-> ref]
    ELSE [self |-> [self EXCEPT !.file_hashes = DictAppend(@, file_info.hash, ref)],
          heap |-> Append(heap, file_info),
          ret |-> ref]

DuplicateFileFinder_add_file(self, heap, filename, file_data, file_id) ==
    index_file_info(self, heap, new_file_info(filename, file_data, file_id),
                    calculate_image_hash(self, file_data), Len(heap) + 1)

\* Mutant of find_exact_duplicates: a bucket of two is not reported.
find_exact_duplicates_min3(self) ==
    DictValues(SelectSeq(self.file_hashes, LAMBDA item : Len(item[2]) > 2))

\* DuplicateFileFinder.find_exact_duplicates
find_exact_duplicates(self) ==
    DictValues(SelectSeq(self.file_hashes, LAMBDA item : Len(item[2]) > 1))

\* sum(c1 != c2 for c1, c2 in zip(hash1, hash2))
hamming(hash1, hash2) ==
    LET n == IF Len(hash1) < Len(hash2) THEN Len(hash1) ELSE Len(hash2)
    IN Cardinality({i \in 1..n : hash1[i] # hash2[i]})

distance(hash1, hash2) == hamming(hash1, hash2)

\* Mutant of within_threshold: the lengths are not compared.
within_threshold_any_length(hash1, hash2, threshold) ==
    distance(hash1, hash2) <= threshold

\* Mutant of within_threshold: distance < threshold.
within_threshold_strict(hash1, hash2, threshold) ==
    Len(hash1) = Len(hash2) /\ distance(hash1, hash2) < threshold

\* Mutant of within_threshold: distance == threshold.
within_threshold_exact(hash1, hash2, threshold) ==
    Len(hash1) = Len(hash2) /\ distance(hash1, hash2) = threshold

\* len(hash1) == len(hash2) and distance <= threshold
within_threshold(hash1, hash2, threshold) ==
    Len(hash1) = Len(hash2) /\ distance(hash1, hash2) <= threshold

\* Mutant of already_processed: the outer loop skips no bucket.
already_processed_never(hash1, processed_hashes) == FALSE

\* if hash1 in processed_hashes: continue
already_processed(hash1, processed_hashes) == hash1 \in processed_hashes

\* The inner loop of find_similar_images from its j-th bucket on: st holds
\* similar_group, processed_hashes and the log of absorbed buckets.
RECURSIVE CompareWithOthers(_, _, _, _, _)
CompareWithOthers(image_hashes, hash1, threshold, j, st) ==
    IF j > Len(image_hashes) THEN st
    ELSE LET hash2 == image_hashes[j][1]
             files2 == image_hashes[j][2]
         IN IF /\ hash1 # hash2
               /\ hash2 \notin st.processed_hashes
               /\ within_threshold(hash1, hash2, threshold)
            THEN CompareWithOthers(image_hashes, hash1, threshold, j + 1,
                    [st EXCEPT !.similar_group = @ \o files2,
                               !.processed_hashes = @ \cup {hash2},
                               !.log = Append(@, <<"absorb", hash2, hash1>>)])
            ELSE CompareWithOthers(image_hashes, hash1, threshold, j + 1, st)

\* "Remove duplicates within the group based on filename": the first record
\* of each filename, in order.
unique_by_filename(heap, similar_group) ==
    SelectSeq([i \in DOMAIN similar_group |-> <<i, similar_group[i]>>],
              LAMBDA p : \A k \in 1..(p[1] - 1) :
                            heap[similar_group[k]].filename # heap[p[2]].filename)

\* Mutant of UniqueGroup: the last record of each filename is kept.
UniqueGroup_last(heap, similar_group) ==
    SelectSeq(similar_group,
              LAMBDA ref : \A k \in DOMAIN similar_group :
                              (heap[similar_group[k]].filename = heap[ref].filename)
                                  => similar_group[k] <= ref)

UniqueGroup(heap, similar_group) ==
    LET u == unique_by_filename(heap, similar_group)
    IN [i \in DOMAIN u |-> u[i][2]]

\* The outer loop of find_similar_images from its i-th bucket on: st holds
\* similar_groups, processed_hashes and the log of seeds and absorptions.
RECURSIVE SimilarLoop(_, _, _, _, _)
SimilarLoop(image_hashes, heap, threshold, i, st) ==
    IF i > Len(image_hashes) THEN st
    ELSE LET hash1 == image_hashes[i][1]
             files1 == image_hashes[i][2]
         IN IF already_processed(hash1, st.processed_hashes)
            THEN SimilarLoop(image_hashes, heap, threshold, i + 1, st)
            ELSE LET inner == CompareWithOthers(image_hashes, hash1, threshold, 1,
                                 [similar_group |-> files1,
                                  processed_hashes |-> st.processed_hashes,
                                  log |-> Append(st.log, <<"seed", hash1, hash1>>)])
                     unique_group == UniqueGroup(heap, inner.similar_group)
                     emitted == Len(inner.similar_group) > 1 /\ Len(unique_group) > 1
                 IN SimilarLoop(image_hashes, heap, threshold, i + 1,
                       [similar_groups |-> IF emitted
                                           THEN Append(st.similar_groups, unique_group)
                                           ELSE st.similar_groups,
                        processed_hashes |-> inner.processed_hashes \cup {hash1},
                        log |-> inner.log])

\* Mutant of similar_images_run: the buckets are taken from the newest to
\* the oldest.
similar_images_run_newest_first(self, heap, threshold) ==
    SimilarLoop([i \in DOMAIN self.image_hashes |->
                    self.image_hashes[Len(self.image_hashes) + 1 - i]],
                heap, threshold, 1,
                [similar_groups |-> <<>>, processed_hashes |-> {}, log |-> <<>>])

\* The run of DuplicateFileFinder.find_similar_images(threshold): its result
\* (similar_groups), and the order in which buckets were taken as seeds and
\* absorbed.
similar_images_run(self, heap, threshold) ==
    SimilarLoop(self.image_hashes, heap, threshold, 1,
                [similar_groups |-> <<>>, processed_hashes |-> {}, log |-> <<>>])

\* DuplicateFileFinder.find_similar_images(threshold)
DuplicateFileFinder_find_similar_images(self, heap, threshold) ==
    similar_images_run(self, heap, threshold).similar_groups

\* The default thresholds: find_similar_images(threshold=5), and
\* self.image_similarity_threshold and self.min_file_size of the
\* WhatsApp-optimized finder.
default_threshold == 5
image_similarity_threshold == 8
min_file_size == 100

\* WhatsAppOptimizedDuplicateFinder.find_similar_images passes an explicit
\* threshold on to the base class, so with a threshold the two classes agree.
find_similar_images(self, heap, threshold) ==
    DuplicateFileFinder_find_similar_images(self, heap, threshold)

\* self.find_similar_images() with no argument, dispatched on the class: the
\* base default, or self.image_similarity_threshold in place of None.
find_similar_images_default(self, heap) ==
    IF self.wa
    THEN DuplicateFileFinder_find_similar_images(self, heap, image_similarity_threshold)
    ELSE DuplicateFileFinder_find_similar_images(self, heap, default_threshold)

\* round(x / d, 0) of the exact quotient, to the nearest integer, ties to
\* even (Python's round and format on a float that holds the quotient
\* exactly).
RoundDiv(x, d) ==
    LET q == x \div d
        r == x % d
    IN IF 2 * r > d \/ (2 * r = d /\ q % 2 = 1) THEN q + 1 ELSE q

\* Mutant of total_wasted_space: the kept file is counted too.
total_wasted_space_all(heap, exact_duplicates) ==
    sum([g \in DOMAIN exact_duplicates |->
            heap[exact_duplicates[g][1]].size * Len(exact_duplicates[g])])

\* "Calculate space savings": the loop of get_duplicate_summary over the
\* exact-duplicate groups.
total_wasted_space(heap, exact_duplicates) ==
    sum([g \in DOMAIN exact_duplicates |->
            IF Len(exact_duplicates[g]) > 1
            THEN heap[exact_duplicates[g][1]].size * (Len(exact_duplicates[g]) - 1)
            ELSE 0])

\* DuplicateFileFinder.get_duplicate_summary. potential_space_saved_mb is in
\* hundredths of a MB.
get_duplicate_summary(self, heap) ==
    LET exact_duplicates == find_exact_duplicates(self)
        similar_images == find_similar_images_default(self, heap)
    IN [total_files_analyzed |->
            sum([b \in DOMAIN self.file_hashes |-> Len(self.file_hashes[b][2])]),
        exact_duplicate_groups |-> Len(exact_duplicates),
        exact_duplicate_files |->
            sum([g \in DOMAIN exact_duplicates |-> Len(exact_duplicates[g]) - 1]),
        similar_image_groups |-> Len(similar_images),
        similar_image_files |->
            sum([g \in DOMAIN similar_images |-> Len(similar_images[g]) - 1]),
        potential_space_saved_bytes |-> total_wasted_space(heap, exact_duplicates),
        potential_space_saved_mb |->
            RoundDiv(total_wasted_space(heap, exact_duplicates) * 100, 1024 * 1024)]

\* Mutant of get_files_to_delete: the first file of a group is listed too.
get_files_to_delete_all(self) ==
    LET exact_duplicates == find_exact_duplicates(self)
    IN Concat([g \in DOMAIN exact_duplicates |-> exact_duplicates[g]])

\* Mutant of get_files_to_delete: the last file of a group is kept.
get_files_to_delete_keep_last(self) ==
    LET exact_duplicates == find_exact_duplicates(self)
    IN Concat([g \in DOMAIN exact_duplicates |->
                  SubSeq(exact_duplicates[g], 1, Len(exact_duplicates[g]) - 1)])

\* DuplicateFileFinder.get_files_to_delete
get_files_to_delete(self) ==
    LET exact_duplicates == find_exact_duplicates(self)
    IN Concat([g \in DOMAIN exact_duplicates |-> Tail(exact_duplicates[g])])

\* file_info.get(key, default)
InfoGet(file_info, key, default) ==
    IF key \in DOMAIN file_info THEN file_info[key] ELSE default

\* The lines of a report for the groups: a header line per group, then one
\* line per member with its status (the first member is the one to keep).
GroupLines(heap, groups, kind, rest_status, wa) ==
    Concat([g \in DOMAIN groups |->
        <<[line |-> "group", kind |-> kind, number |-> g, files |-> Len(groups[g])]>>
        \o [j \in DOMAIN groups[g] |->
              [line |-> "file", kind |-> kind,
               status |-> IF j = 1 THEN "Keep" ELSE rest_status,
               filename |-> IF wa
                            THEN InfoGet(heap[groups[g][j]], "original_filename",
                                         heap[groups[g][j]].filename)
                            ELSE heap[groups[g][j]].filename,
               ref |-> groups[g][j]]]])

\* DuplicateFileFinder.generate_report and its override
\* WhatsAppOptimizedDuplicateFinder.generate_report: the report as its
\* lines, the wording left out.
generate_report(self, heap) ==
    LET exact_duplicates == find_exact_duplicates(self)
        similar_images == find_similar_images_default(self, heap)
        summary == get_duplicate_summary(self, heap)
    IN <<[line |-> "title", whatsapp |-> self.wa], [line |-> "summary", summary |-> summary]>>
       \o GroupLines(heap, exact_duplicates, "exact", "Delete", self.wa)
       \o GroupLines(heap, similar_images, "similar", "Review", self.wa)
       \o (IF exact_duplicates = <<>> /\ similar_images = <<>>
           THEN <<[line |-> "no duplicates found"]>>
           ELSE IF self.wa THEN <<[line |-> "whatsapp note"]>> ELSE <<>>)

\* ------------------------------------------------------------------------
\* WhatsAppOptimizedDuplicateFinder.

DigitsAt(s, from, n) ==
    Len(s) >= from + n - 1 /\ \A i \in from..(from + n - 1) : s[i] \in Range(DigitChars)

\* WhatsAppOptimizedDuplicateFinder._is_whatsapp_media: re.match of
\* ^IMG-\d{8}-WA\d{4}, and the same with VID, AUD and DOC.
is_whatsapp_media(filename) ==
    \E prefix \in {<<"I", "M", "G", "-">>, <<"V", "I", "D", "-">>,
                   <<"A", "U", "D", "-">>, <<"D", "O", "C", "-">>} :
        /\ startswith(filename, prefix)
        /\ DigitsAt(filename, 5, 8)
        /\ Len(filename) >= 15 /\ SubSeq(filename, 13, 15) = <<"-", "W", "A">>
        /\ DigitsAt(filename, 16, 4)

\* file_id or 'unknown'
IdOrUnknown(file_id) ==
    IF file_id = None \/ file_id = <<>> THEN <<"u", "n", "k", "n", "o", "w", "n">>
    ELSE file_id

\* Mutant of WhatsApp_add_file: the size is checked after the file has been
\* indexed.
WhatsApp_add_file_late_check(self, heap, filename, file_data, file_id) ==
    [raised |-> Len(file_data) < min_file_size]
    @@ DuplicateFileFinder_add_file(self, heap, filename, file_data, file_id)

\* Mutant of normalized_filename: the name is replaced when
\* _is_whatsapp_media matches it.
normalized_filename_when_media(filename, file_id) ==
    IF is_whatsapp_media(filename)
    THEN <<"w","h","a","t","s","a","p","p","_","i","m","a","g","e","_">>
         \o IdOrUnknown(file_id) \o get_file_extension(filename)
    ELSE filename

\* "Check for WhatsApp naming patterns": the filename add_file goes on with.
normalized_filename(filename, file_id) ==
    IF startswith(filename, <<"I", "M", "G", "-">>) /\ contains(filename, <<"W", "A">>)
    THEN <<"w","h","a","t","s","a","p","p","_","i","m","a","g","e","_">>
         \o IdOrUnknown(file_id) \o get_file_extension(filename)
    ELSE filename

\* file_info['original_filename'] = ...; file_info['is_whatsapp_media'] = ...
\* on the file_info that super().add_file has returned.
annotate_file_info(added, original_filename) ==
    [raised |-> FALSE, self |-> added.self,
     heap |-> [added.heap EXCEPT ![added.ret] =
                  @ @@ ("original_filename" :> original_filename)
                    @@ ("is_whatsapp_media" :> is_whatsapp_media(original_filename))],
     ret |-> added.ret]

\* Mutant of WhatsApp_add_file: a file of exactly min_file_size bytes is
\* rejected too.
WhatsApp_add_file_inclusive(self, heap, filename, file_data, file_id) ==
    IF Len(file_data) <= min_file_size
    THEN [raised |-> TRUE, self |-> self, heap |-> heap, ret |-> 0]
    ELSE annotate_file_info(
             DuplicateFileFinder_add_file(self, heap, normalized_filename(filename, file_id),
                                          file_data, file_id),
             filename)

\* WhatsAppOptimizedDuplicateFinder.add_file: raised is TRUE when it raises
\* ValueError ("File too small"), with the finder and the heap untouched.
WhatsApp_add_file(self, heap, filename, file_data, file_id) ==
    IF Len(file_data) < min_file_size
    THEN [raised |-> TRUE, self |-> self, heap |-> heap, ret |-> 0]
    ELSE annotate_file_info(
             DuplicateFileFinder_add_file(self, heap, normalized_filename(filename, file_id),
                                          file_data, file_id),
             filename)

\* Mutant of add_file: the base finder's add_file whatever the class.
add_file_base_only(self, heap, filename, file_data, file_id) ==
    [raised |-> FALSE] @@ DuplicateFileFinder_add_file(self, heap, filename, file_data, file_id)

\* self.finder.add_file(...), dispatched on the finder's class.
add_file(self, heap, filename, file_data, file_id) ==
    IF self.wa THEN WhatsApp_add_file(self, heap, filename, file_data, file_id)
    ELSE [raised |-> FALSE] @@ DuplicateFileFinder_add_file(self, heap, filename, file_data, file_id)

\* Mutant of clear: self.image_hashes is not cleared.
clear_exact_only(self) == [self EXCEPT !.file_hashes = <<>>]

\* DuplicateFileFinder.clear
clear(self) == [self EXCEPT !.file_hashes = <<>>, !.image_hashes = <<>>]

\* ------------------------------------------------------------------------
\* DuplicateFinderSession: the state of the program.

VARIABLES
    use_whatsapp_optimization, \* the argument of DuplicateFinderSession(...)
    files,           \* the heap: the file_info objects created, in order
    file_hashes,     \* self.finder.file_hashes
    image_hashes,    \* self.finder.image_hashes
    uploaded_files,  \* self.uploaded_files
    last,            \* the last call: [op, raised, ret, valid]
    contents,        \* history: the bytes of files[i], for every i
    rejected,        \* history: an add has raised since construction / reset
    todos,           \* todo_manager.todos
    next_id,         \* todo_manager.next_id
    completed_ids,   \* history: the ids complete_todo has returned True for
    removed_ids      \* history: the ids remove_todo has returned True for

\* The state of the global TodoManager, with its history.
todo_vars == <<todos, next_id, completed_ids, removed_ids>>

vars == <<use_whatsapp_optimization, files, file_hashes, image_hashes,
          uploaded_files, last, contents, rejected, todo_vars>>

\* self.finder
Finder == [wa |-> use_whatsapp_optimization, file_hashes |-> file_hashes,
           image_hashes |-> image_hashes]

\* The message of analyze_and_report for a session without uploads, as a
\* report of one line (without its leading symbol).
NoFilesMessage ==
    <<[line |-> "No files uploaded for analysis. Please upload some files first."]>>

\* use_whatsapp_optimization: bool = True
default_use_whatsapp_optimization == TRUE

\* DuplicateFinderSession.__init__
Init ==
    /\ use_whatsapp_optimization \in BOOLEAN
    /\ files = <<>>
    /\ file_hashes = <<>>
    /\ image_hashes = <<>>
    /\ uploaded_files = <<>>
    /\ last = [op |-> "__init__", raised |-> FALSE, ret |-> 0, valid |-> TRUE]
    /\ contents = <<>>
    /\ rejected = FALSE
    /\ todos = <<>>
    /\ next_id = 1
    /\ completed_ids = {}
    /\ removed_ids = {}

\* file_id or filename
IdOrFilename(file_id, filename) ==
    IF file_id = None \/ file_id = <<>> THEN filename ELSE file_id

\* The call as the history records it.
Called(raised, ret, base64_data) ==
    [op |-> "add_file_from_base64", raised |-> raised, ret |-> ret,
     valid |-> ValidBase64(base64_data)]

\* base64.b64decode raises: the call raises ValueError("Failed to process
\* file ...") before it has touched the finder.
Raise(base64_data) ==
    /\ UNCHANGED todo_vars
    /\ last' = Called(TRUE, 0, base64_data)
    /\ rejected' = TRUE
    /\ UNCHANGED <<use_whatsapp_optimization, files, file_hashes, image_hashes,
                   uploaded_files, contents>>

\* The call from the return of self.finder.add_file on. An exception out of
\* add_file is re-raised as ValueError; what add_file did to the finder
\* before raising stays done.
after_add_file(filename, base64_data, file_id, file_data, added) ==
    /\ UNCHANGED todo_vars
    /\ files' = added.heap
    /\ file_hashes' = added.self.file_hashes
    /\ image_hashes' = added.self.image_hashes
    /\ last' = Called(added.raised, added.ret, base64_data)
    /\ IF added.raised
       THEN /\ rejected' = TRUE
            /\ UNCHANGED <<use_whatsapp_optimization, uploaded_files, contents>>
       ELSE /\ uploaded_files' = DictSet(uploaded_files, IdOrFilename(file_id, filename),
                                         added.ret)
            /\ contents' = Append(contents, file_data)
            /\ UNCHANGED <<use_whatsapp_optimization, rejected>>

\* The call from the return of base64.b64decode on.
after_b64decode(filename, base64_data, file_id, decoded) ==
    IF ~decoded.ok THEN Raise(base64_data)
    ELSE after_add_file(filename, base64_data, file_id, decoded.data,
                        add_file(Finder, files, filename, decoded.data, file_id))

\* DuplicateFinderSession.add_file_from_base64
add_file_from_base64(filename, base64_data, file_id) ==
    after_b64decode(filename, base64_data, file_id, b64decode(base64_data))

\* DuplicateFinderSession.analyze_and_report
analyze_and_report_result ==
    IF uploaded_files = <<>> THEN NoFilesMessage ELSE generate_report(Finder, files)

analyze_and_report ==
    /\ UNCHANGED todo_vars
    /\ last' = [op |-> "analyze_and_report", raised |-> FALSE,
                ret |-> analyze_and_report_result, valid |-> TRUE]
    /\ UNCHANGED <<use_whatsapp_optimization, files, file_hashes, image_hashes,
                   uploaded_files, contents, rejected>>

\* DuplicateFinderSession.get_deletion_recommendations
get_deletion_recommendations == get_files_to_delete(Finder)

\* DuplicateFinderSession.get_session_stats, without session_duration.
get_session_stats(heap, uploaded) ==
    [files_uploaded |-> Len(uploaded),
     total_size_uploaded |-> sum([i \in DOMAIN uploaded |-> heap[uploaded[i][2]].size]),
     image_files |-> Cardinality({i \in DOMAIN uploaded : heap[uploaded[i][2]].is_image}),
     whatsapp_files |->
         Cardinality({i \in DOMAIN uploaded :
                         InfoGet(heap[uploaded[i][2]], "is_whatsapp_media", FALSE)})]

\* DuplicateFileFinder.format_file_size: f"{size_bytes:.1f} {unit}" after
\* the divisions by 1024.0, as the number of tenths and the unit.
format_file_size(size_bytes) ==
    IF size_bytes < 1024 THEN [tenths |-> size_bytes * 10, unit |-> "B"]
    ELSE IF size_bytes < 1024 * 1024
    THEN [tenths |-> RoundDiv(size_bytes * 10, 1024), unit |-> "KB"]
    ELSE IF size_bytes < 1024 * 1024 * 1024
    THEN [tenths |-> RoundDiv(size_bytes * 10, 1024 * 1024), unit |-> "MB"]
    ELSE IF size_bytes < 1024 * 1024 * 1024 * 1024
    THEN [tenths |-> RoundDiv(size_bytes * 10, 1024 * 1024 * 1024), unit |-> "GB"]
    ELSE [tenths |-> RoundDiv(size_bytes * 10, 1024 * 1024 * 1024 * 1024), unit |-> "TB"]

\* The "file" lines of a deletion list: for i, file in enumerate(listed, 1),
\* with file.get('original_filename', file['filename']) and the formatted
\* size; ref is the file_info the line is written from.
DeletionLines(heap, listed, section) ==
    [i \in DOMAIN listed |->
        [line |-> "file", section |-> section, number |-> i,
         filename |-> InfoGet(heap[listed[i]], "original_filename", heap[listed[i]].filename),
         size |-> format_file_size(heap[listed[i]].size),
         whatsapp |-> InfoGet(heap[listed[i]], "is_whatsapp_media", FALSE),
         ref |-> listed[i]]]

\* Mutant of get_deletion_instructions: the regular files are all the files
\* to delete.
get_deletion_instructions_all_regular(self, heap) ==
    LET files_to_delete == get_files_to_delete(self)
        flagged(ref) == InfoGet(heap[ref], "is_whatsapp_media", FALSE)
        whatsapp_files == SelectSeq(files_to_delete, flagged)
        regular_files == files_to_delete
    IN IF files_to_delete = <<>> THEN <<[line |-> "no files need to be deleted"]>>
       ELSE <<[line |-> "goal", files |-> Len(files_to_delete),
               size |-> format_file_size(
                           sum([i \in DOMAIN files_to_delete |->
                                   heap[files_to_delete[i]].size]))]>>
            \o (IF whatsapp_files = <<>> THEN <<>>
                ELSE <<[line |-> "whatsapp files to delete"]>>
                     \o DeletionLines(heap, whatsapp_files, "whatsapp"))
            \o (IF regular_files = <<>> THEN <<>>
                ELSE <<[line |-> "regular files to delete"]>>
                     \o DeletionLines(heap, regular_files, "regular"))
            \o <<[line |-> "tips"]>>

\* DuplicateFinderSession.get_deletion_instructions: the instructions as
\* their lines, the wording left out.
get_deletion_instructions(self, heap) ==
    LET files_to_delete == get_files_to_delete(self)
        flagged(ref) == InfoGet(heap[ref], "is_whatsapp_media", FALSE)
        whatsapp_files == SelectSeq(files_to_delete, flagged)
        regular_files == SelectSeq(files_to_delete, LAMBDA ref : ~flagged(ref))
    IN IF files_to_delete = <<>> THEN <<[line |-> "no files need to be deleted"]>>
       ELSE <<[line |-> "goal", files |-> Len(files_to_delete),
               size |-> format_file_size(
                           sum([i \in DOMAIN files_to_delete |->
                                   heap[files_to_delete[i]].size]))]>>
            \o (IF whatsapp_files = <<>> THEN <<>>
                ELSE <<[line |-> "whatsapp files to delete"]>>
                     \o DeletionLines(heap, whatsapp_files, "whatsapp"))
            \o (IF regular_files = <<>> THEN <<>>
                ELSE <<[line |-> "regular files to delete"]>>
                     \o DeletionLines(heap, regular_files, "regular"))
            \o <<[line |-> "tips"]>>

\* Mutant of create_deletion_checklist: total_saved counts the kept file of
\* the first group too.
create_deletion_checklist_with_kept(self, heap) ==
    LET files_to_delete == get_files_to_delete(self)
        total == sum([i \in DOMAIN files_to_delete |-> heap[files_to_delete[i]].size])
    IN IF files_to_delete = <<>> THEN <<[line |-> "no duplicates found"]>>
       ELSE <<[line |-> "goal", files |-> Len(files_to_delete),
               size |-> format_file_size(total)]>>
            \o DeletionLines(heap, files_to_delete, "checklist")
            \o <<[line |-> "total space to free",
                  size |-> format_file_size(total + heap[files_to_delete[1]].size)]>>

\* DuplicateFinderSession.create_deletion_checklist: the checklist as its
\* lines, the wording and the date left out.
create_deletion_checklist(self, heap) ==
    LET files_to_delete == get_files_to_delete(self)
        total == sum([i \in DOMAIN files_to_delete |-> heap[files_to_delete[i]].size])
    IN IF files_to_delete = <<>> THEN <<[line |-> "no duplicates found"]>>
       ELSE <<[line |-> "goal", files |-> Len(files_to_delete),
               size |-> format_file_size(total)]>>
            \o DeletionLines(heap, files_to_delete, "checklist")
            \o <<[line |-> "total space to free", size |-> format_file_size(total)]>>

\* Mutant of reset_session: self.uploaded_files is not cleared.
reset_session_keep_uploads ==
    /\ UNCHANGED todo_vars
    /\ file_hashes' = clear(Finder).file_hashes
    /\ image_hashes' = clear(Finder).image_hashes
    /\ files' = <<>>
    /\ contents' = <<>>
    /\ rejected' = FALSE
    /\ last' = [op |-> "reset_session", raised |-> FALSE, ret |-> Len(contents),
                valid |-> TRUE]
    /\ UNCHANGED <<use_whatsapp_optimization, uploaded_files>>

\* DuplicateFinderSession.reset_session. The file_info objects are no longer
\* referenced, and the heap starts over. The call returns nothing: the
\* history keeps in ret the number of files it has discarded.
reset_session ==
    /\ UNCHANGED todo_vars
    /\ file_hashes' = clear(Finder).file_hashes
    /\ image_hashes' = clear(Finder).image_hashes
    /\ uploaded_files' = <<>>
    /\ files' = <<>>
    /\ contents' = <<>>
    /\ rejected' = FALSE
    /\ last' = [op |-> "reset_session", raised |-> FALSE, ret |-> Len(contents),
                valid |-> TRUE]
    /\ UNCHANGED use_whatsapp_optimization

\* A call of a method that assigns to nothing and returns ret.
Returns(op, ret) ==
    /\ UNCHANGED todo_vars
    /\ last' = [op |-> op, raised |-> FALSE, ret |-> ret, valid |-> TRUE]
    /\ UNCHANGED <<use_whatsapp_optimization, files, file_hashes, image_hashes,
                   uploaded_files, contents, rejected>>

\* The calls of the finder's and the session's other methods.
call_find_exact_duplicates == Returns("find_exact_duplicates", find_exact_duplicates(Finder))

\* Mutant of call_find_similar_images: similar_group is the seed's bucket
\* itself and not a copy of it, so that the first bucket is left extended by
\* what it has absorbed.
call_find_similar_images_aliased ==
    /\ UNCHANGED todo_vars
    /\ last' = [op |-> "find_similar_images", raised |-> FALSE,
                ret |-> find_similar_images_default(Finder, files), valid |-> TRUE]
    /\ image_hashes' =
          [b \in DOMAIN image_hashes |->
              IF b = 1
              THEN <<image_hashes[1][1],
                     image_hashes[1][2]
                     \o Concat([c \in DOMAIN image_hashes |->
                           IF c > 1 /\ within_threshold(image_hashes[1][1], image_hashes[c][1],
                                                         default_threshold)
                           THEN image_hashes[c][2] ELSE <<>>])>>
              ELSE image_hashes[b]]
    /\ UNCHANGED <<use_whatsapp_optimization, files, file_hashes,
                   uploaded_files, contents, rejected>>

\* find_similar_images copies the seed's bucket (similar_group =
\* list(files1)) before it extends it.
call_find_similar_images ==
    Returns("find_similar_images", find_similar_images_default(Finder, files))

call_get_duplicate_summary ==
    Returns("get_duplicate_summary", get_duplicate_summary(Finder, files))
call_generate_report == Returns("generate_report", generate_report(Finder, files))
call_get_files_to_delete == Returns("get_files_to_delete", get_files_to_delete(Finder))
call_get_deletion_recommendations ==
    Returns("get_deletion_recommendations", get_deletion_recommendations)
call_get_deletion_instructions ==
    Returns("get_deletion_instructions", get_deletion_instructions(Finder, files))
call_create_deletion_checklist ==
    Returns("create_deletion_checklist", create_deletion_checklist(Finder, files))
call_get_session_stats ==
    Returns("get_session_stats", get_session_stats(files, uploaded_files))

\* ------------------------------------------------------------------------
\* DuplicateCleanupHelper.

\* time_per_file = 30
time_per_file == 30

\* Mutant of estimate_cleanup_time: a minute is still given in seconds.
estimate_cleanup_time_late_minutes(file_count) ==
    LET total_seconds == file_count * time_per_file
    IN IF total_seconds <= 60
       THEN [form |-> "~{} seconds", seconds |-> total_seconds]
       ELSE IF total_seconds < 3600
       THEN [form |-> "~{} minutes", minutes |-> total_seconds \div 60]
       ELSE [form |-> "~{}h {}m", hours |-> total_seconds \div 3600,
             minutes |-> (total_seconds % 3600) \div 60]

\* DuplicateCleanupHelper.estimate_cleanup_time: the format string and the
\* numbers it is filled with.
estimate_cleanup_time(file_count) ==
    LET total_seconds == file_count * time_per_file
    IN IF total_seconds < 60
       THEN [form |-> "~{} seconds", seconds |-> total_seconds]
       ELSE IF total_seconds < 3600
       THEN [form |-> "~{} minutes", minutes |-> total_seconds \div 60]
       ELSE [form |-> "~{}h {}m", hours |-> total_seconds \div 3600,
             minutes |-> (total_seconds % 3600) \div 60]

\* A call of the static method; the history keeps its argument.
call_estimate_cleanup_time(file_count) ==
    /\ UNCHANGED todo_vars
    /\ last' = [op |-> "estimate_cleanup_time", raised |-> FALSE,
                ret |-> estimate_cleanup_time(file_count), valid |-> TRUE,
                file_count |-> file_count]
    /\ UNCHANGED <<use_whatsapp_optimization, files, file_hashes, image_hashes,
                   uploaded_files, contents, rejected>>

\* ------------------------------------------------------------------------
\* TodoManager (mcp-starter.py). A todo is the dict of add_todo without
\* created_at.

\* The session and the finder, which the todo manager does not touch.
session_vars == <<use_whatsapp_optimization, files, file_hashes, image_hashes,
                  uploaded_files, contents, rejected>>

\* The call as the history records it.
TodoCalled(op, ret, todo_id) ==
    [op |-> op, raised |-> FALSE, ret |-> ret, valid |-> TRUE, todo_id |-> todo_id]

\* The index of the first todo with the id, or 0: the loops of
\* complete_todo and remove_todo.
FirstWithId(todo_list, todo_id) ==
    IF \E i \in DOMAIN todo_list : todo_list[i].id = todo_id
    THEN CHOOSE i \in DOMAIN todo_list :
            /\ todo_list[i].id = todo_id
            /\ \A k \in 1..(i - 1) : todo_list[k].id # todo_id
    ELSE 0

\* TodoManager.add_todo
add_todo(task, priority, due_date, due_time) ==
    LET todo == [id |-> next_id, task |-> task, priority |-> priority,
                 due_date |-> due_date, due_time |-> due_time, completed |-> FALSE]
    IN /\ todos' = Append(todos, todo)
       /\ next_id' = next_id + 1
       /\ last' = TodoCalled("add_todo", todo, todo.id)
       /\ UNCHANGED <<completed_ids, removed_ids, session_vars>>

\* TodoManager.complete_todo
complete_todo(todo_id) ==
    LET i == FirstWithId(todos, todo_id)
    IN /\ IF i # 0
          THEN /\ todos' = [todos EXCEPT ![i].completed = TRUE]
               /\ completed_ids' = completed_ids \cup {todo_id}
          ELSE UNCHANGED <<todos, completed_ids>>
       /\ last' = TodoCalled("complete_todo", i # 0, todo_id)
       /\ UNCHANGED <<next_id, removed_ids, session_vars>>

\* Mutant of remove_todo: next_id is set to the length of the list plus one.
remove_todo_renumber(todo_id) ==
    LET i == FirstWithId(todos, todo_id)
    IN /\ IF i # 0
          THEN /\ todos' = SubSeq(todos, 1, i - 1) \o SubSeq(todos, i + 1, Len(todos))
               /\ removed_ids' = removed_ids \cup {todo_id}
               /\ next_id' = Len(todos)
          ELSE UNCHANGED <<todos, removed_ids, next_id>>
       /\ last' = TodoCalled("remove_todo", i # 0, todo_id)
       /\ UNCHANGED <<completed_ids, session_vars>>

\* TodoManager.remove_todo
remove_todo(todo_id) ==
    LET i == FirstWithId(todos, todo_id)
    IN /\ IF i # 0
          THEN /\ todos' = SubSeq(todos, 1, i - 1) \o SubSeq(todos, i + 1, Len(todos))
               /\ removed_ids' = removed_ids \cup {todo_id}
          ELSE UNCHANGED <<todos, removed_ids>>
       /\ last' = TodoCalled("remove_todo", i # 0, todo_id)
       /\ UNCHANGED <<next_id, completed_ids, session_vars>>

\* TodoManager.get_todos
get_todos(show_completed) ==
    IF show_completed THEN todos ELSE SelectSeq(todos, LAMBDA todo : ~todo.completed)

\* TodoManager.get_todos_by_priority
get_todos_by_priority(priority) ==
    SelectSeq(todos, LAMBDA todo : todo.priority = priority /\ ~todo.completed)

\* ------------------------------------------------------------------------
\* Specifications. A payload is left out when hashing it would resample an
\* image (see Resize).

IsModelledData(wa, decoded) ==
    \/ ~decoded.ok
    \/ ~NeedsResampling(wa, decoded.data)
    \/ wa /\ Len(decoded.data) < min_file_size
IsModelled(wa, p) == IsModelledData(wa, b64decode(p))

ModelledTable == {<<x, IsModelled(x[1], x[2])>> : x \in BOOLEAN \X AllPayloads}
Modelled(p) == Lookup(ModelledTable, <<use_whatsapp_optimization, p>>)

a_png == <<"a", ".", "p", "n", "g">>
b_png == <<"b", ".", "p", "n", "g">>
c_png == <<"c", ".", "p", "n", "g">>
x_txt == <<"x", ".", "t", "x", "t">>
id1 == <<"i", "d", "1">>

\* Spec: a session fed valid and invalid payloads.
FileNames == {a_png, x_txt}
FileIds == {None, id1}
Payloads ==
    {B64Encode(Text(65, 3)), B64Encode(Text(65, 102)), B64Encode(Pgm(8, {1})),
     B64Encode(Pgm(16, {1})), Junked(Text(65, 102)), JunkedInside(Text(65, 102)),
     Junked(Pgm(16, {1})), Junked(Pgm(8, {1})),
     Overlong(Text(65, 102)), NotAscii(Text(65, 102)), Unpadded(Text(65, 100))}

AddFile ==
    \E filename \in FileNames, base64_data \in Payloads, file_id \in FileIds :
        /\ Len(files) < MaxFiles
        /\ Modelled(base64_data)
        /\ add_file_from_base64(filename, base64_data, file_id)

Next == AddFile \/ analyze_and_report \/ reset_session

Spec == Init /\ [][Next]_vars

\* SpecExact: a detector fed well-formed payloads of two contents of
\* different sizes, a text and an image of the finder's grid size, under two
\* filenames, with and without an identifier.
ExactFileNames == {a_png, b_png}
ExactPayloads8 == {B64Encode(Text(65, 102)), B64Encode(Pgm(8, {1}))}
ExactPayloads16 == {B64Encode(Text(65, 102)), B64Encode(Pgm(16, {1}))}
ExactPayloads == IF use_whatsapp_optimization THEN ExactPayloads16 ELSE ExactPayloads8

AddFileExact ==
    \E filename \in ExactFileNames, base64_data \in ExactPayloads, file_id \in FileIds :
        /\ Len(files) < MaxExactFiles
        /\ add_file_from_base64(filename, base64_data, file_id)

NextExact == AddFileExact

SpecExact == Init /\ [][NextExact]_vars

\* SpecImages: a detector fed images of the finder's grid size whose
\* perceptual hashes differ in 1, 2 or 3 positions, under three filenames.
ImageFileNames == {a_png, b_png, c_png}
ImageOnes == {{}, {1, 2}, {1, 2, 3}}
ImagePayloads8 == {B64Encode(Pgm(8, ones)) : ones \in ImageOnes}
ImagePayloads16 == {B64Encode(Pgm(16, ones)) : ones \in ImageOnes}
ImagePayloads == IF use_whatsapp_optimization THEN ImagePayloads16 ELSE ImagePayloads8

AddImage ==
    \E filename \in ImageFileNames, base64_data \in ImagePayloads :
        /\ Len(files) < MaxImages
        /\ add_file_from_base64(filename, base64_data, None)

NextImages == AddImage

SpecImages == Init /\ [][NextImages]_vars

\* SpecClusters: the same images under two filenames, enough of them for two
\* groups of a kind.
AddClusterImage ==
    \E filename \in ExactFileNames, base64_data \in ImagePayloads :
        /\ Len(files) < MaxClusterImages
        /\ add_file_from_base64(filename, base64_data, None)

NextClusters == AddClusterImage

SpecClusters == Init /\ [][NextClusters]_vars

\* The thresholds find_similar_images is called with in the properties.
\* One text and two images of the finder's grid size whose perceptual hashes
\* differ in one position.
MixedPayloads8 ==
    {B64Encode(Text(65, 102)), B64Encode(Pgm(8, {1, 2})), B64Encode(Pgm(8, {1, 2, 3}))}
MixedPayloads16 ==
    {B64Encode(Text(65, 102)), B64Encode(Pgm(16, {1, 2})), B64Encode(Pgm(16, {1, 2, 3}))}
MixedPayloads == IF use_whatsapp_optimization THEN MixedPayloads16 ELSE MixedPayloads8

\* SpecNames: a detector fed one text and two images under filenames that
\* follow the WhatsApp naming pattern of an image and of a video, that only
\* start with IMG- and contain WA, and that do neither, with and without an
\* identifier.
MaxNamedFiles == 2
img_wa_png == <<"I", "M", "G", "-", "2", "0", "2", "4", "0", "1", "0", "1", "-", "W", "A", "0", "0", "0", "1", ".", "p", "n", "g">>
vid_wa_mp4 == <<"V", "I", "D", "-", "2", "0", "2", "4", "0", "1", "0", "1", "-", "W", "A", "0", "0", "0", "1", ".", "m", "p", "4">>
img_walk_png == <<"I", "M", "G", "-", "W", "A", "L", "K", ".", "p", "n", "g">>
NamedFileNames == {img_wa_png, vid_wa_mp4, img_walk_png, a_png}

AddNamedFile ==
    \E filename \in NamedFileNames, base64_data \in MixedPayloads, file_id \in FileIds :
        /\ Len(files) < MaxNamedFiles
        /\ add_file_from_base64(filename, base64_data, file_id)

NextNames == AddNamedFile

SpecNames == Init /\ [][NextNames]_vars

\* SpecQueries: a session fed one text and two images whose perceptual
\* hashes differ in one position, under two filenames, with any of the
\* finder's and the session's queries called between the adds.
MaxQueryFiles == 2

AddQueryFile ==
    \E filename \in ExactFileNames, base64_data \in MixedPayloads :
        /\ Len(files) < MaxQueryFiles
        /\ add_file_from_base64(filename, base64_data, None)

NextQueries ==
    \/ AddQueryFile
    \/ call_find_exact_duplicates
    \/ call_find_similar_images
    \/ call_get_duplicate_summary
    \/ call_generate_report
    \/ call_get_files_to_delete
    \/ analyze_and_report
    \/ call_get_deletion_recommendations
    \/ call_get_deletion_instructions
    \/ call_create_deletion_checklist
    \/ call_get_session_stats

SpecQueries == Init /\ [][NextQueries]_vars

\* SpecScenario: a session fed the three bytes AAA and a text of 102 bytes
\* under the filenames x.txt, y.txt and z.txt, without identifiers.
MaxScenarioFiles == 3
y_txt == <<"y", ".", "t", "x", "t">>
z_txt == <<"z", ".", "t", "x", "t">>
ScenarioNames == <<x_txt, y_txt, z_txt>>
AAA == Text(65, 3)
ScenarioPayloads == {B64Encode(AAA), B64Encode(Text(65, 102))}

AddScenarioFile ==
    \E filename \in Range(ScenarioNames), base64_data \in ScenarioPayloads :
        /\ Len(files) < MaxScenarioFiles
        /\ add_file_from_base64(filename, base64_data, None)

NextScenario == AddScenarioFile

SpecScenario == Init /\ [][NextScenario]_vars

\* SpecSizes: a session fed texts of 0, 99, 100 and 102 bytes under an image
\* and a text filename, without identifiers.
MaxSizedFiles == 2
SizedContents == {Text(65, 0), Text(65, 99), Text(65, 100), Text(65, 102)}
SizedPayloads == {B64Encode(c) : c \in SizedContents}

AddSizedFile ==
    \E filename \in FileNames, base64_data \in SizedPayloads :
        /\ Len(files) < MaxSizedFiles
        /\ add_file_from_base64(filename, base64_data, None)

NextSizes == AddSizedFile

SpecSizes == Init /\ [][NextSizes]_vars

\* SpecEstimate: estimate_cleanup_time called with every file count up to
\* MaxFileCount, which is past the two hours.
MaxFileCount == 250

NextEstimate == \E file_count \in 0..MaxFileCount : call_estimate_cleanup_time(file_count)

SpecEstimate == Init /\ [][NextEstimate]_vars

\* SpecDeletions: a session fed one text and one image under a filename that
\* follows the WhatsApp naming pattern and one that does not, without
\* identifiers, with the deletion instructions and the checklist asked for
\* between the adds.
MaxDeletionFiles == 4
DeletionFileNames == {img_wa_png, a_png}

AddDeletionFile ==
    \E filename \in DeletionFileNames, base64_data \in ExactPayloads :
        /\ Len(files) < MaxDeletionFiles
        /\ add_file_from_base64(filename, base64_data, None)

NextDeletions ==
    \/ AddDeletionFile
    \/ call_get_deletion_instructions
    \/ call_create_deletion_checklist

SpecDeletions == Init /\ [][NextDeletions]_vars

\* SpecTodos: the todo manager given up to MaxTodos todos of two
\* priorities, and asked to complete and to remove todos by ids that it has
\* and has not issued.
MaxTodos == 3
TodoIds == 1..(MaxTodos + 1)
Priorities == {1, 2}

AddTodo ==
    \E priority \in Priorities :
        /\ next_id <= MaxTodos
        /\ add_todo(<<"t">>, priority, None, None)
CompleteTodo == \E todo_id \in TodoIds : complete_todo(todo_id)
RemoveTodo == \E todo_id \in TodoIds : remove_todo(todo_id)

NextTodos == AddTodo \/ CompleteTodo \/ RemoveTodo

SpecTodos == Init /\ [][NextTodos]_vars

MaxThreshold == 3
\* A threshold past the length of every hash.
HugeThreshold == 300
Thresholds == 0..MaxThreshold

\* ------------------------------------------------------------------------
\* Properties.

\* The records (references into the heap), and the records of a group list.
Refs == 1..Len(files)
Members(groups) == UNION {Range(groups[g]) : g \in DOMAIN groups}
Together(groups, i, j) == \E g \in DOMAIN groups : {i, j} \subseteq Range(groups[g])

\* The earliest-submitted record with the content of record i.
Earliest(i) == CHOOSE k \in Refs : contents[k] = contents[i]
                                   /\ \A m \in Refs : contents[m] = contents[i] => k <= m

ExactGroups == find_exact_duplicates(Finder)

\* C1: two records are in the same exact-duplicate group if and only if
\* their bytes are identical, whatever their filenames and identifiers, and
\* a record whose content was submitted once is in no exact-duplicate group.
C1_ExactGroupsAreEqualContents ==
    /\ \A i, j \in Refs : i # j => (Together(ExactGroups, i, j) <=> contents[i] = contents[j])
    /\ \A i \in Refs : (\A j \in Refs \ {i} : contents[j] # contents[i])
                          => i \notin Members(ExactGroups)

\* Two records of one content under different filenames and identifiers
\* share a group, and a third record of another content is in no group.
C1_Witness ==
    \E i, j, k \in Refs :
        /\ contents[i] = contents[j] /\ i # j
        /\ files[i].filename # files[j].filename /\ files[i].file_id # files[j].file_id
        /\ Together(ExactGroups, i, j)
        /\ contents[k] # contents[i] /\ k \notin Members(ExactGroups)

\* C2: the members of an exact-duplicate group are in submission order, so
\* the first (the one the report marks Keep) is the earliest record of that
\* content, and the groups are in the order their contents were first
\* submitted.
C2_ExactGroupsInSubmissionOrder ==
    /\ \A g \in DOMAIN ExactGroups :
          /\ \A a, b \in DOMAIN ExactGroups[g] : a < b => ExactGroups[g][a] < ExactGroups[g][b]
          /\ ExactGroups[g][1] = Earliest(ExactGroups[g][1])
    /\ \A g, h \in DOMAIN ExactGroups : g < h => ExactGroups[g][1] < ExactGroups[h][1]
    /\ LET report == generate_report(Finder, files)
       IN \A n \in DOMAIN report :
             (report[n].line = "file" /\ report[n].kind = "exact")
                => (report[n].status = "Keep" <=> report[n].ref = Earliest(report[n].ref))

\* Two groups, the first of them completed only after the second: the
\* contents were submitted in the order X, Y, Y, X.
C2_Witness ==
    /\ Len(ExactGroups) = 2
    /\ ExactGroups[1] = <<1, 4>>
    /\ ExactGroups[2] = <<2, 3>>

\* C3: the deletion recommendation list is as long as the summary's
\* exact_duplicate_files, and holds the first member of no exact-duplicate
\* group.
C3_DeletionListMatchesSummary ==
    /\ Len(get_deletion_recommendations)
          = get_duplicate_summary(Finder, files).exact_duplicate_files
    /\ Len(get_files_to_delete(Finder))
          = get_duplicate_summary(Finder, files).exact_duplicate_files
    /\ \A g \in DOMAIN ExactGroups : ExactGroups[g][1] \notin Range(get_deletion_recommendations)

\* Two groups of two records: two records to delete, two to keep.
C3_Witness ==
    /\ Len(ExactGroups) = 2
    /\ Len(get_deletion_recommendations) = 2

\* The records that have an earlier byte-identical record.
LaterCopies == {i \in Refs : Earliest(i) # i}

RECURSIVE SumOver(_, _)
SumOver(S, f) == IF S = {} THEN 0
                    ELSE LET x == CHOOSE x \in S : TRUE IN f[x] + SumOver(S \ {x}, f)

\* C4: potential_space_saved_bytes is the sum over the exact-duplicate
\* groups of (group size - 1) times the size of the group's files, which is
\* the total size of the records that have an earlier byte-identical record;
\* similar-image groups add nothing to it.
C4_SpaceSavedIsSumOverExactGroups ==
    /\ get_duplicate_summary(Finder, files).potential_space_saved_bytes
          = SumOver(DOMAIN ExactGroups,
                    [g \in DOMAIN ExactGroups |->
                        (Len(ExactGroups[g]) - 1) * Len(contents[ExactGroups[g][1]])])
    /\ get_duplicate_summary(Finder, files).potential_space_saved_bytes
          = SumOver(LaterCopies, [i \in Refs |-> Len(contents[i])])

\* Two exact groups of files of different sizes, and a similar-image group.
C4_Witness ==
    /\ Len(ExactGroups) = 2
    /\ files[ExactGroups[1][1]].size # files[ExactGroups[2][1]].size
    /\ get_duplicate_summary(Finder, files).similar_image_groups > 0
    /\ get_duplicate_summary(Finder, files).potential_space_saved_bytes > 0

\* ------------------------------------------------------------------------
\* Similar-image groups.

\* The runs of find_similar_images, one per threshold, and the result of the
\* run for threshold t among them.
Runs == {<<t, similar_images_run(Finder, files, t)>> : t \in Thresholds}
GroupsOf(runs, t) == Lookup(runs, t).similar_groups
LogOf(runs, t) == Lookup(runs, t).log

\* The image records, and the Hamming distance of the hashes of every two of
\* them (comparable: the hashes have the same length).
Images == {i \in Refs : files[i].is_image}
Hash(i) == files[i].perceptual_hash
Distances == {<<<<i, j>>, [comparable |-> Len(Hash(i)) = Len(Hash(j)),
                           d |-> hamming(Hash(i), Hash(j))]>> :
                 <<i, j>> \in Images \X Images}
Near(dist, i, j, t) == Lookup(dist, <<i, j>>).comparable /\ Lookup(dist, <<i, j>>).d <= t

\* The first indexed image.
IsFirstImage(i) == i \in Images /\ \A m \in Images : i <= m

\* The first record of the bucket of record i (the records of its hash), and
\* the order in which the records of the buckets are listed: by bucket, then
\* by submission.
FirstWithHash(dist, i) == CHOOSE k \in Images :
                             /\ Near(dist, k, i, 0)
                             /\ \A m \in Images : Near(dist, m, i, 0) => k <= m
Precedes(dist, k, j) == \/ FirstWithHash(dist, k) < FirstWithHash(dist, j)
                        \/ FirstWithHash(dist, k) = FirstWithHash(dist, j) /\ k < j

\* The statement of C5 as claimed: together if and only if d <= threshold.
C5_TogetherIffWithinThreshold ==
    \A runs \in {Runs} : \A dist \in {Distances} : \A t \in Thresholds :
        \A i, j \in Images :
            i # j => (Together(GroupsOf(runs, t), i, j) <=> Near(dist, i, j, t))

\* C5 (amended): two images are together in a similar-image group only if
\* the hash of each is within the threshold of the hash of the group's first
\* member, so that their own hashes differ in at most 2 * threshold
\* positions; and an image is in the group of the first indexed image if and
\* only if its hash is within the threshold of that image's hash and no
\* record listed before it within that threshold has its working filename.
C5_TogetherOnlyIfNearTheFirstMember ==
    \A runs \in {Runs} : \A dist \in {Distances} : \A t \in Thresholds :
        LET groups == GroupsOf(runs, t)
        IN /\ \A g \in DOMAIN groups : \A m \in Range(groups[g]) :
                 Near(dist, groups[g][1], m, t)
           /\ \A i, j \in Images : Together(groups, i, j) => Near(dist, i, j, 2 * t)
           /\ \A first, j \in Images :
                 (IsFirstImage(first) /\ first # j)
                    => (Together(groups, first, j)
                          <=> /\ Near(dist, first, j, t)
                              /\ \A k \in Images :
                                    (Near(dist, first, k, t) /\ Precedes(dist, k, j))
                                       => files[k].filename # files[j].filename)

\* Two images further apart than the threshold share a group with the first
\* indexed image, which is within the threshold of both.
C5_Witness ==
    \E runs \in {Runs} : \E dist \in {Distances} : \E t \in Thresholds :
        \E first, i, j \in Images :
            /\ IsFirstImage(first)
            /\ Together(GroupsOf(runs, t), first, i) /\ Together(GroupsOf(runs, t), i, j)
            /\ Near(dist, first, i, t) /\ Near(dist, first, j, t) /\ ~Near(dist, i, j, t)

\* The statement of C6 as claimed: pairs and grouped records are kept when
\* the threshold grows.
C6_MonotoneInThreshold ==
    \A runs \in {Runs} : \A t1, t2 \in Thresholds :
        t1 <= t2 => /\ \A i, j \in Images : Together(GroupsOf(runs, t1), i, j)
                                               => Together(GroupsOf(runs, t2), i, j)
                    /\ Members(GroupsOf(runs, t1)) \subseteq Members(GroupsOf(runs, t2))

\* The group of the first indexed image, as the set of its records, and the
\* working filenames of a set of records.
FirstGroup(groups) == {j \in Images : \E first \in Images :
                          IsFirstImage(first) /\ Together(groups, first, j)}
FileNamesOf(S) == {files[i].filename : i \in S}

\* C6 (amended): for thresholds t1 <= t2 the group of the first indexed
\* image is kept: if it is reported under t1 it is reported under t2, with
\* at least as many records, and with every working filename it lists under
\* t1.
C6_FirstGroupGrowsWithThreshold ==
    \A runs \in {Runs} : \A t1, t2 \in Thresholds :
        t1 <= t2 =>
            LET group1 == FirstGroup(GroupsOf(runs, t1))
                group2 == FirstGroup(GroupsOf(runs, t2))
            IN /\ FileNamesOf(group1) \subseteq FileNamesOf(group2)
               /\ Cardinality(group1) <= Cardinality(group2)

\* The first image's group under one threshold loses a record, under a
\* larger one, to another record of the same filename.
C6_Witness ==
    \E runs \in {Runs} : \E t1, t2 \in Thresholds :
        /\ t1 < t2
        /\ FirstGroup(GroupsOf(runs, t1)) # {}
        /\ ~(FirstGroup(GroupsOf(runs, t1)) \subseteq FirstGroup(GroupsOf(runs, t2)))

\* C7: no record is in two exact-duplicate groups, no record is in two
\* similar-image groups of one result, and a bucket that a group has
\* absorbed is not taken as a seed and not absorbed again later in the run.
C7_GroupsAreDisjoint ==
    /\ \A g, h \in DOMAIN ExactGroups :
          g # h => Range(ExactGroups[g]) \cap Range(ExactGroups[h]) = {}
    /\ \A g \in DOMAIN ExactGroups :
          Cardinality(Range(ExactGroups[g])) = Len(ExactGroups[g])
    /\ \A runs \in {Runs} : \A t \in Thresholds :
          LET groups == GroupsOf(runs, t)
              log == LogOf(runs, t)
          IN /\ \A g, h \in DOMAIN groups :
                   g # h => Range(groups[g]) \cap Range(groups[h]) = {}
             /\ \A g \in DOMAIN groups : Cardinality(Range(groups[g])) = Len(groups[g])
             /\ \A a, b \in DOMAIN log :
                   (a < b /\ log[a][1] = "absorb") => log[b][2] # log[a][2]

\* An exact-duplicate group; and, under some threshold, two similar-image
\* groups in one result, the first of which has absorbed a bucket before the
\* second was seeded.
C7_Witness ==
    /\ Len(ExactGroups) >= 1
    /\ \E runs \in {Runs} : \E t \in Thresholds :
          /\ Len(GroupsOf(runs, t)) = 2
          /\ \E a, b \in DOMAIN LogOf(runs, t) :
                a < b /\ LogOf(runs, t)[a][1] = "absorb" /\ LogOf(runs, t)[b][1] = "seed"

\* ------------------------------------------------------------------------
\* The session.

\* The session that has made only the successful adds so far, in order: the
\* first n of them, each with the filename, bytes and identifier it was
\* called with.
RECURSIVE Replay(_)
Replay(n) ==
    IF n = 0
    THEN [self |-> [wa |-> use_whatsapp_optimization, file_hashes |-> <<>>,
                    image_hashes |-> <<>>],
          heap |-> <<>>, uploaded_files |-> <<>>]
    ELSE LET before == Replay(n - 1)
             filename == InfoGet(files[n], "original_filename", files[n].filename)
             added == add_file(before.self, before.heap, filename, contents[n],
                               files[n].file_id)
         IN [self |-> added.self, heap |-> added.heap,
             uploaded_files |-> DictSet(before.uploaded_files,
                                        IdOrFilename(files[n].file_id, filename),
                                        added.ret)]

\* C8: an add_file_from_base64 that raises leaves the exact-hash index, the
\* perceptual-hash index, the file records and the upload map as they were,
\* and the session is at all times the one that the successful adds alone
\* would have produced.
C8_FailedAddChangesNothing ==
    /\ [][(last'.op = "add_file_from_base64" /\ last'.raised)
             => UNCHANGED <<files, file_hashes, image_hashes, uploaded_files>>]_vars
    /\ [](\A replayed \in {Replay(Len(contents))} :
             /\ replayed.heap = files
             /\ replayed.self = Finder
             /\ replayed.uploaded_files = uploaded_files)

\* An add has raised, and a later add has succeeded, with an earlier file
\* still indexed.
C8_Witness ==
    /\ rejected
    /\ last.op = "add_file_from_base64" /\ ~last.raised
    /\ Len(files) = 2 /\ Len(uploaded_files) = 2

\* C9: an add_file_from_base64 whose payload is not valid base64 raises.
C9_InvalidPayloadRaises ==
    (last.op = "add_file_from_base64" /\ ~last.valid) => last.raised

\* C10: analyze_and_report returns the no-files message if and only if no add
\* has succeeded since the session was constructed or last reset, and
\* otherwise the report of the finder, which is never empty.
C10_NoFilesMessageIffNoSuccessfulAdd ==
    /\ analyze_and_report_result = NoFilesMessage <=> Len(contents) = 0
    /\ Len(contents) > 0 => analyze_and_report_result = generate_report(Finder, files)
    /\ analyze_and_report_result # <<>>
    /\ last.op = "analyze_and_report"
          => /\ ~last.raised
             /\ last.ret = NoFilesMessage <=> Len(contents) = 0

\* Every add so far has raised, and analyze_and_report has returned the
\* message.
C10_Witness ==
    /\ rejected /\ Len(contents) = 0
    /\ last.op = "analyze_and_report" /\ last.ret = NoFilesMessage

\* The answers of the queries of a session: the exact-duplicate groups, the
\* similar-image groups, the summary, the deletion list and the stats.
Answers(self, heap, uploaded) ==
    [exact |-> find_exact_duplicates(self),
     similar |-> find_similar_images_default(self, heap),
     summary |-> get_duplicate_summary(self, heap),
     to_delete |-> get_files_to_delete(self),
     stats |-> get_session_stats(heap, uploaded)]

\* C11: reset_session leaves the exact-hash index, the perceptual-hash index
\* and the upload map empty whatever was added before, and from then on the
\* session answers every query as a freshly constructed session that is given
\* the adds made since the reset.
C11_ResetSessionIsFresh ==
    /\ [][last'.op = "reset_session"
             => file_hashes' = <<>> /\ image_hashes' = <<>> /\ uploaded_files' = <<>>]_vars
    /\ [](\A fresh \in {Replay(Len(contents))} :
             Answers(Finder, files, uploaded_files)
                = Answers(fresh.self, fresh.heap, fresh.uploaded_files))

\* A reset has discarded the two files of the session.
C11_Witness ==
    /\ last.op = "reset_session" /\ last.ret = 2
    /\ file_hashes = <<>> /\ image_hashes = <<>> /\ uploaded_files = <<>>

\* The records whose image decoding failed: the file has an image extension
\* and PIL does not open its bytes.
DecodeFailed == {i \in Refs : files[i].is_image /\ ~ImageOpen(contents[i]).ok}
\* The records registered in the perceptual-hash index.
PerceptualIndex == UNION {Range(image_hashes[b][2]) : b \in DOMAIN image_hashes}

\* C12: a record whose image decoding failed is not registered in the
\* perceptual-hash index and is in no similar-image group, and every record
\* in that index is an image that was decoded.
C12_UndecodableImagesAreNotInThePerceptualIndex ==
    /\ \A i \in DecodeFailed :
          /\ i \notin PerceptualIndex
          /\ i \notin Members(find_similar_images_default(Finder, files))
    /\ \A i \in PerceptualIndex : files[i].is_image /\ ImageOpen(contents[i]).ok

\* The bytes of the payloads of Spec that decode, are of a size the finder
\* accepts, and are not an image.
UndecodableImageBytes ==
    {b64decode(p).data : p \in {q \in Payloads : b64decode(q).ok /\ Modelled(q)}}
    \cap {data \in Contents : /\ ~ImageOpen(data).ok
                              /\ ~(use_whatsapp_optimization /\ Len(data) < min_file_size)}

\* The records of the bucket of the exact-hash index for the bytes.
ExactBucket(index, data) ==
    IF DictHas(index, calculate_file_hash(data))
    THEN Range(DictGet(index, calculate_file_hash(data))) ELSE {}

\* C13: in every state, adding bytes that are not an image under an image
\* filename does not raise, registers the new record in the exact-hash index
\* with every earlier record of the same bytes, and leaves the exact-hash
\* index as adding the same bytes under a non-image filename would; and every
\* record whose image decoding failed is in an exact-duplicate group with
\* exactly the records of the same bytes, images or not.
C13_DecodeFailureIsNotAnAddFailure ==
    /\ \A data \in UndecodableImageBytes, file_id \in FileIds :
          \A as_image \in {add_file(Finder, files, a_png, data, file_id)} :
          \A as_text \in {add_file(Finder, files, x_txt, data, file_id)} :
             /\ ~as_image.raised
             /\ as_image.heap[as_image.ret].is_image
             /\ ExactBucket(as_image.self.file_hashes, data)
                   = {i \in Refs : contents[i] = data} \cup {as_image.ret}
             /\ as_image.self.file_hashes = as_text.self.file_hashes
             /\ find_exact_duplicates(as_image.self) = find_exact_duplicates(as_text.self)
    /\ \A i \in DecodeFailed :
          /\ i \in ExactBucket(file_hashes, contents[i])
          /\ \A j \in Refs \ {i} : Together(ExactGroups, i, j) <=> contents[i] = contents[j]

\* The add of bytes that are not an image under an image filename has
\* returned, and the record is in an exact-duplicate group with an earlier
\* record of the same bytes under a non-image filename.
C13_Witness ==
    /\ last.op = "add_file_from_base64" /\ ~last.raised /\ last.ret = 2
    /\ 2 \in DecodeFailed /\ ~files[1].is_image
    /\ contents[2] \in UndecodableImageBytes
    /\ Together(ExactGroups, 1, 2)

\* Another display name for the k-th submission, with the same extension:
\* f1.png, f2.png, ... No two submissions share it.
OtherName(k) == <<"f", DigitChars[k + 1]>> \o files[k].extension

\* The run that makes the first n successful adds of the session with the
\* same bytes and identifiers in the same order, under the other names.
RECURSIVE Renamed(_)
Renamed(n) ==
    IF n = 0
    THEN [self |-> [wa |-> use_whatsapp_optimization, file_hashes |-> <<>>,
                    image_hashes |-> <<>>],
          heap |-> <<>>]
    ELSE LET before == Renamed(n - 1)
             added == add_file(before.self, before.heap, OtherName(n), contents[n],
                               files[n].file_id)
         IN [self |-> added.self, heap |-> added.heap]

\* The partition that a list of groups makes of the submission positions.
Partition(groups) == {Range(groups[g]) : g \in DOMAIN groups}

\* C14 as claimed: the run under the other names has the same partition into
\* exact-duplicate groups and, for every threshold, the same partition into
\* similar-image groups.
C14_GroupsIgnoreDisplayNames ==
    \A other \in {Renamed(Len(contents))} :
        /\ Partition(find_exact_duplicates(other.self)) = Partition(ExactGroups)
        /\ \A t \in Thresholds :
              Partition(find_similar_images(other.self, other.heap, t))
                 = Partition(find_similar_images(Finder, files, t))

\* C14, amended: the run under the other names has the same partition into
\* exact-duplicate groups, and the same partition into similar-image groups
\* when no two image records of the session share a working filename (none
\* do in the other run). Any two runs that differ in display names only are
\* both compared with that run.
C14_ExactGroupsIgnoreDisplayNames ==
    \A other \in {Renamed(Len(contents))} :
        /\ Partition(find_exact_duplicates(other.self)) = Partition(ExactGroups)
        /\ (\A i, j \in Images : i # j => files[i].filename # files[j].filename)
              => \A t \in Thresholds :
                    find_similar_images(other.self, other.heap, t)
                       = find_similar_images(Finder, files, t)

\* Three images under three names: two of the same bytes, which are an
\* exact-duplicate group, and a third that is in a similar-image group with
\* them at threshold 1.
C14_Witness ==
    /\ Len(files) = 3 /\ Cardinality(FileNamesOf(Refs)) = 3
    /\ \E i, j \in Refs : i # j /\ Partition(ExactGroups) = {{i, j}}
    /\ Partition(find_similar_images(Finder, files, 1)) = {Refs}

\* The name that WhatsApp_add_file synthesizes for a submission.
Synthesized(filename, file_id) ==
    <<"w","h","a","t","s","a","p","p","_","i","m","a","g","e","_">>
    \o (IF file_id = None THEN <<"u", "n", "k", "n", "o", "w", "n">> ELSE file_id)
    \o get_file_extension(filename)

\* The record that the WhatsApp-optimized finder of the state makes of a
\* submission.
RecordOf(filename, data, file_id) ==
    LET added == add_file(Finder, files, filename, data, file_id)
    IN added.heap[added.ret]

NamedContents == {b64decode(p).data : p \in MixedPayloads}

Queries ==
    {"find_exact_duplicates", "find_similar_images", "get_duplicate_summary",
     "generate_report", "get_files_to_delete", "analyze_and_report",
     "get_deletion_recommendations", "get_deletion_instructions",
     "create_deletion_checklist", "get_session_stats"}

\* What the query returns in the state.
ResultOf(op) ==
    CASE op = "find_exact_duplicates" -> find_exact_duplicates(Finder)
      [] op = "find_similar_images" -> find_similar_images_default(Finder, files)
      [] op = "get_duplicate_summary" -> get_duplicate_summary(Finder, files)
      [] op = "generate_report" -> generate_report(Finder, files)
      [] op = "get_files_to_delete" -> get_files_to_delete(Finder)
      [] op = "analyze_and_report" -> analyze_and_report_result
      [] op = "get_deletion_recommendations" -> get_deletion_recommendations
      [] op = "get_deletion_instructions" -> get_deletion_instructions(Finder, files)
      [] op = "create_deletion_checklist" -> create_deletion_checklist(Finder, files)
      [] op = "get_session_stats" -> get_session_stats(files, uploaded_files)

\* C17: a call of a query leaves the file records, the exact-hash index, the
\* perceptual-hash index and the upload map as they were, and the query
\* called again in the state it leaves returns what it has just returned.
C17_QueriesArePureReads ==
    /\ [][last'.op \in Queries
             => UNCHANGED <<files, file_hashes, image_hashes, uploaded_files>>]_vars
    /\ [](last.op \in Queries => last.ret = ResultOf(last.op))

\* find_similar_images has returned a group of two images that are in two
\* buckets of the perceptual-hash index.
C17_Witness ==
    /\ last.op = "find_similar_images" /\ last.ret = <<(<<1, 2>>)>>
    /\ Len(files) = 2 /\ Len(image_hashes) = 2

\* The session has made the first k adds of the scenario and no other: AAA
\* as x.txt, then as y.txt, then as z.txt.
ScenarioPrefix(k) ==
    /\ Len(files) = k /\ ~rejected
    /\ \A i \in 1..k : /\ files[i].filename = ScenarioNames[i]
                        /\ contents[i] = AAA /\ files[i].file_id = None

\* The next add of the scenario returns, and after the three adds there is
\* one exact-duplicate group, of the three records in submission order, and
\* exact_duplicate_files is 2.
ScenarioHolds ==
    /\ \A k \in 0..2 :
          ScenarioPrefix(k) => ~add_file(Finder, files, ScenarioNames[k + 1], AAA, None).raised
    /\ ScenarioPrefix(3)
          => /\ ExactGroups = <<(<<1, 2, 3>>)>>
             /\ get_duplicate_summary(Finder, files).exact_duplicate_files = 2

\* C18 as claimed: the scenario holds in a session constructed with its
\* default settings.
C18_ThreeCopiesInDefaultSession ==
    use_whatsapp_optimization = default_use_whatsapp_optimization => ScenarioHolds

\* C18, amended: the scenario holds in a session constructed with
\* use_whatsapp_optimization=False; in a session constructed with the
\* default settings every add of AAA raises and leaves the finder as it was,
\* so that no record of the session has these bytes.
C18_ThreeCopiesInBaseSession ==
    /\ ~use_whatsapp_optimization => ScenarioHolds
    /\ use_whatsapp_optimization = default_use_whatsapp_optimization
          => /\ \A filename \in Range(ScenarioNames) :
                   \A added \in {add_file(Finder, files, filename, AAA, None)} :
                       added.raised /\ added.self = Finder /\ added.heap = files
             /\ \A i \in Refs : contents[i] # AAA

\* The third add of the scenario has returned in a session constructed with
\* use_whatsapp_optimization=False, and the three records are one group.
C18_Witness ==
    /\ ~use_whatsapp_optimization /\ ScenarioPrefix(3)
    /\ last.op = "add_file_from_base64" /\ ~last.raised /\ last.ret = 3
    /\ ExactGroups = <<(<<1, 2, 3>>)>>

\* The filename a record was submitted under.
SubmittedName(i) == InfoGet(files[i], "original_filename", files[i].filename)

\* C19: when the session holds two images only, submitted under different
\* filenames, whose perceptual hashes differ in d positions,
\* find_similar_images returns the one group of both, in submission order,
\* for every threshold of at least d: for threshold 5 when d is 1.
C19_TwoNearImagesAreOneGroup ==
    (/\ Len(files) = 2 /\ Images = {1, 2}
     /\ SubmittedName(1) # SubmittedName(2)
     /\ Len(Hash(1)) = Len(Hash(2)))
        => \A t \in Thresholds \cup {default_threshold} :
              hamming(Hash(1), Hash(2)) <= t
                 => find_similar_images(Finder, files, t) = <<(<<1, 2>>)>>

\* The candidates of the group that begins with the record first: the
\* records of its bucket (the seed), then those of the buckets which the log
\* of the run says the seed has absorbed, bucket after bucket in the order of
\* the index.
Candidates(log, first) ==
    DictGet(image_hashes, Hash(first))
    \o Concat([b \in DOMAIN image_hashes |->
                 IF <<"absorb", image_hashes[b][1], Hash(first)>> \in Range(log)
                 THEN image_hashes[b][2] ELSE <<>>])

\* The group is what is left of the candidates when every record whose
\* working filename an earlier candidate has is dropped.
IsFirstOfEachName(group, candidates) ==
    /\ Range(group) \subseteq Range(candidates)
    /\ \A p \in DOMAIN candidates :
          candidates[p] \in Range(group)
             <=> \A q \in 1..(p - 1) :
                    files[candidates[q]].filename # files[candidates[p]].filename
    /\ \A a, b \in DOMAIN group :
          a < b => \E p, q \in DOMAIN candidates :
                      p < q /\ candidates[p] = group[a] /\ candidates[q] = group[b]

\* C20: for every threshold, every group of find_similar_images has at
\* least two members, no two of them with the same working filename, and is
\* made of the first candidate of each working filename, in candidate order.
C20_GroupsHaveDistinctFilenames ==
    \A runs \in {Runs} : \A t \in Thresholds :
    \A g \in DOMAIN GroupsOf(runs, t) :
    \A group \in {GroupsOf(runs, t)[g]} :
        /\ Len(group) >= 2
        /\ \A a, b \in DOMAIN group :
              a # b => files[group[a]].filename # files[group[b]].filename
        /\ IsFirstOfEachName(group, Candidates(LogOf(runs, t), group[1]))

\* A group of two records out of three candidates from two buckets: the
\* third candidate has the working filename of the first.
C20_Witness ==
    /\ Len(files) = 3 /\ Len(image_hashes) = 2
    /\ files[1].filename = files[3].filename /\ files[1].filename # files[2].filename
    /\ \E t \in Thresholds :
          /\ find_similar_images(Finder, files, t) = <<(<<1, 2>>)>>
          /\ Len(Candidates(similar_images_run(Finder, files, t).log, 1)) = 3

\* C21: the WhatsApp-optimized finder's add_file raises exactly for the
\* files of fewer than min_file_size bytes (for 99 bytes and not for 100),
\* and leaves the finder as it was when it raises; the base finder's add_file
\* returns for every length, the empty file included; so the records of a
\* WhatsApp-optimized finder all have min_file_size bytes or more.
C21_RejectedIffSmallerThanMinimum ==
    /\ \A filename \in FileNames, data \in SizedContents :
       \A added \in {add_file(Finder, files, filename, data, None)} :
          /\ added.raised <=> (use_whatsapp_optimization /\ Len(data) < min_file_size)
          /\ added.raised => added.self = Finder /\ added.heap = files
          /\ ~added.raised => /\ Len(added.heap) = Len(files) + 1
                               /\ added.heap[added.ret].size = Len(data)
    /\ use_whatsapp_optimization => \A i \in Refs : files[i].size >= min_file_size
    /\ (last.op = "add_file_from_base64" /\ last.raised) => use_whatsapp_optimization

\* The WhatsApp-optimized session has rejected an add and holds a file of
\* exactly 100 bytes, the last one added.
C21_Witness ==
    /\ use_whatsapp_optimization /\ rejected
    /\ last.op = "add_file_from_base64" /\ ~last.raised
    /\ files[last.ret].size = 100

\* C22: for a file count n and T = 30 * n, estimate_cleanup_time(n) gives T
\* in seconds when T < 60, T \div 60 minutes when 60 <= T < 3600, and
\* T \div 3600 hours with (T % 3600) \div 60 minutes when T >= 3600, where
\* the minutes are in 0..59 and hours * 60 + minutes is T \div 60.
C22_EstimateIsThirtySecondsPerFile ==
    last.op = "estimate_cleanup_time" =>
        \A T \in {30 * last.file_count} :
           /\ T < 60 => last.ret = [form |-> "~{} seconds", seconds |-> T]
           /\ (60 <= T /\ T < 3600)
                 => last.ret = [form |-> "~{} minutes", minutes |-> T \div 60]
           /\ T >= 3600
                 => /\ last.ret.form = "~{}h {}m"
                    /\ last.ret.hours = T \div 3600
                    /\ last.ret.minutes = (T % 3600) \div 60
                    /\ last.ret.minutes \in 0..59
                    /\ last.ret.hours * 60 + last.ret.minutes = T \div 60

\* The estimate for 243 files: 2 hours and 1 minute, the 30 seconds left
\* over dropped.
C22_Witness ==
    /\ last.op = "estimate_cleanup_time" /\ last.file_count = 243
    /\ last.ret = [form |-> "~{}h {}m", hours |-> 2, minutes |-> 1]

\* The lines of a deletion list that are about a file, of one section or of
\* all.
FileLines(lines) == SelectSeq(lines, LAMBDA l : l.line = "file")
SectionLines(lines, section) ==
    SelectSeq(lines, LAMBDA l : l.line = "file" /\ l.section = section)

\* The lines list their files in the order of the recommendation list,
\* numbered from 1.
InRecommendationOrder(lines, recommended) ==
    \A p \in DOMAIN lines :
        /\ lines[p].number = p
        /\ \A q \in DOMAIN lines :
              p < q => \E a, b \in DOMAIN recommended :
                          a < b /\ recommended[a] = lines[p].ref
                                /\ recommended[b] = lines[q].ref

\* C23: when there is a file to delete, get_deletion_instructions lists
\* every recommended file in exactly one line, in the WhatsApp section if
\* the record is flagged is_whatsapp_media and in the regular section if it
\* is not, each section in the order of the recommendation list, and the
\* goal line counts the files of both sections; when there is none it
\* returns the no-files-to-delete message.
C23_InstructionsPartitionTheDeletionList ==
    \A lines \in {get_deletion_instructions(Finder, files)} :
    \A recommended \in {get_deletion_recommendations} :
        /\ (last.op = "get_deletion_instructions") => last.ret = lines
        /\ recommended = <<>> <=> lines = <<[line |-> "no files need to be deleted"]>>
        /\ recommended # <<>> =>
              /\ \A k \in DOMAIN recommended :
                    /\ Cardinality({p \in DOMAIN lines :
                                       lines[p].line = "file"
                                          /\ lines[p].ref = recommended[k]}) = 1
                    /\ \A p \in DOMAIN lines :
                          (lines[p].line = "file" /\ lines[p].ref = recommended[k])
                             => lines[p].section =
                                   IF InfoGet(files[recommended[k]], "is_whatsapp_media", FALSE)
                                   THEN "whatsapp" ELSE "regular"
              /\ Len(FileLines(lines)) = Len(recommended)
              /\ InRecommendationOrder(SectionLines(lines, "whatsapp"), recommended)
              /\ InRecommendationOrder(SectionLines(lines, "regular"), recommended)
              /\ lines[1].line = "goal"
              /\ lines[1].files = Len(SectionLines(lines, "whatsapp"))
                                     + Len(SectionLines(lines, "regular"))

\* The instructions returned for three files to delete: two flagged ones in
\* the WhatsApp section and one in the regular section.
C23_Witness ==
    /\ last.op = "get_deletion_instructions"
    /\ Len(get_deletion_recommendations) = 3
    /\ Len(SectionLines(last.ret, "whatsapp")) = 2
    /\ Len(SectionLines(last.ret, "regular")) = 1

\* C24: for every threshold, the huge one included, two image records whose
\* hashes are of different lengths are in no similar-image group together,
\* and the run absorbs no bucket into a seed whose key is of another length.
C24_HashesOfDifferentLengthsAreApart ==
    \A t \in Thresholds \cup {HugeThreshold} :
    \A run \in {similar_images_run(Finder, files, t)} :
        /\ \A i, j \in Images :
              Len(Hash(i)) # Len(Hash(j)) => ~Together(run.similar_groups, i, j)
        /\ \A e \in DOMAIN run.log :
              run.log[e][1] = "absorb" => Len(run.log[e][2]) = Len(run.log[e][3])

\* An image and an image-extension file that is no image, under different
\* filenames: their hashes are of 64 or 256 and of 32 characters, and the
\* huge threshold returns a group that holds one of them without the other.
C24_Witness ==
    \E i, j \in Images :
        /\ Len(Hash(i)) # Len(Hash(j)) /\ files[i].filename # files[j].filename
        /\ i \in Members(find_similar_images(Finder, files, HugeThreshold))
        /\ ~Together(find_similar_images(Finder, files, HugeThreshold), i, j)

\* The ids of a list of todos.
IdsOf(todo_list) == {todo_list[i].id : i \in DOMAIN todo_list}

\* The stored todos have distinct ids, none of them the id of a removed
\* todo, and complete_todo and remove_todo return whether the id was
\* stored, leaving the list and next_id as they were when it was not.
TodoIdsAreNeverReused ==
    /\ [](/\ \A i, j \in DOMAIN todos : i # j => todos[i].id # todos[j].id
          /\ IdsOf(todos) \cap removed_ids = {})
    /\ [][last'.op \in {"complete_todo", "remove_todo"}
             => /\ last'.ret <=> last'.todo_id \in IdsOf(todos)
                /\ ~last'.ret => UNCHANGED <<todos, next_id>>]_vars

\* The todos that complete_todo has returned True for are in neither
\* get_todos() nor get_todos_by_priority(p).
CompletedTodosAreHidden ==
    /\ completed_ids \cap IdsOf(get_todos(FALSE)) = {}
    /\ \A p \in Priorities : completed_ids \cap IdsOf(get_todos_by_priority(p)) = {}

\* C25 as claimed: ids are distinct and never reused, calls with an id that
\* is not stored return False and change nothing, and a todo that
\* complete_todo has returned True for is hidden and is, from then on,
\* returned by get_todos(show_completed=True).
C25_CompletedTodosStayListed ==
    /\ TodoIdsAreNeverReused
    /\ [](/\ CompletedTodosAreHidden
          /\ completed_ids \subseteq IdsOf(get_todos(TRUE)))

\* C25, amended: the same, where a completed todo is returned by
\* get_todos(show_completed=True) until remove_todo has returned True for
\* it, and no longer after.
C25_CompletedTodosStayListedUntilRemoved ==
    /\ TodoIdsAreNeverReused
    /\ [](/\ CompletedTodosAreHidden
          /\ completed_ids \ removed_ids \subseteq IdsOf(get_todos(TRUE))
          /\ removed_ids \cap IdsOf(get_todos(TRUE)) = {})

\* A completed todo is stored, another todo has been removed, a third has
\* been added since, and remove_todo has just returned False.
C25_Witness ==
    /\ last.op = "remove_todo" /\ ~last.ret
    /\ completed_ids \cap IdsOf(todos) # {}
    /\ removed_ids # {}
    /\ \E i \in DOMAIN todos : \A r \in removed_ids : todos[i].id > r

\* The records with the content hash of record i, and the records that are
\* in a similar-image group at some threshold.
WithHashOf(i) == {k \in Refs : files[k].hash = files[i].hash}
SimilarAtSomeThreshold(runs) == UNION {Members(GroupsOf(runs, t)) : t \in Thresholds}

\* C26: of the records of every content hash, get_files_to_delete lists
\* all but the earliest-submitted one, each once, so that one record of
\* every content stays; a record without a byte-identical copy is not
\* listed, in a similar-image group or not.
C26_OneRecordOfEveryContentIsKept ==
    \A to_delete \in {get_files_to_delete(Finder)} :
        /\ \A i \in Refs :
              /\ WithHashOf(i) \ Range(to_delete) = {Earliest(i)}
              /\ files[i].hash = files[Earliest(i)].hash
              /\ WithHashOf(i) = {i} => i \notin Range(to_delete)
        /\ Cardinality(Range(to_delete)) = Len(to_delete)
        /\ Range(to_delete) \subseteq Refs

\* Two byte-identical images and a third that is only similar to them: the
\* second copy is the only record to delete.
C26_Witness ==
    /\ Len(files) = 3
    /\ get_files_to_delete(Finder) = <<2>>
    /\ 3 \in SimilarAtSomeThreshold(Runs)
    /\ WithHashOf(3) = {3}

\* C27: the stats' files_uploaded and the summary's total_files_analyzed
\* are both the number of adds that have succeeded since the last reset,
\* for files submitted under one filename without an identifier, or under
\* one identifier, as for any others.
C27_StatsCountTheSuccessfulAdds ==
    /\ get_duplicate_summary(Finder, files).total_files_analyzed = Len(contents)
    /\ get_session_stats(files, uploaded_files).files_uploaded = Len(contents)

\* C28: the first member of every similar-image group, at every threshold,
\* is the earliest-submitted of the group's members.
C28_FirstMemberIsTheEarliest ==
    \A runs \in {Runs} : \A t \in Thresholds :
    \A g \in DOMAIN GroupsOf(runs, t) :
    \A group \in {GroupsOf(runs, t)[g]} :
        \A a \in DOMAIN group : group[1] <= group[a]

\* The first image is in no group and the second image's bucket has
\* absorbed the third's: the group starts with the second image.
C28_Witness ==
    /\ Len(files) = 3
    /\ Hash(2) # Hash(3)
    /\ \E t \in Thresholds : find_similar_images(Finder, files, t) = <<(<<2, 3>>)>>

\* C29: in the WhatsApp-optimized finder, two images submitted under
\* different filenames, the only images indexed, whose perceptual hashes
\* are equal or within the threshold are both members of one similar-image
\* group, with identifiers or without: the deduplication by filename drops
\* neither.
C29_DifferentlyNamedImagesAreBothKept ==
    (/\ use_whatsapp_optimization
     /\ Images = {1, 2} /\ Len(files) = 2
     /\ SubmittedName(1) # SubmittedName(2))
        => \A dist \in {Distances} : \A t \in Thresholds :
              Near(dist, 1, 2, t)
                 => /\ Together(find_similar_images(Finder, files, t), 1, 2)
                    /\ UniqueGroup(files, <<1, 2>>) = <<1, 2>>

\* The lines that show a byte total: the goal line and, in the checklist,
\* the total-space-to-free line.
TotalLines(lines) ==
    SelectSeq(lines, LAMBDA l : l.line \in {"goal", "total space to free"})

\* C30: the sum of the sizes of the recommended files is the summary's
\* potential_space_saved_bytes, and the totals that the deletion checklist
\* (goal line and total line) and the deletion instructions (goal line)
\* show are that number, formatted.
C30_ShownTotalIsPotentialSpaceSaved ==
    \A saved \in {get_duplicate_summary(Finder, files).potential_space_saved_bytes} :
    \A recommended \in {get_deletion_recommendations} :
        /\ sum([k \in DOMAIN recommended |-> files[recommended[k]].size]) = saved
        /\ \A lines \in {create_deletion_checklist(Finder, files),
                          get_deletion_instructions(Finder, files)} :
              /\ recommended # <<>> =>
                    Len(TotalLines(lines)) = (IF lines[Len(lines)].line = "tips" THEN 1 ELSE 2)
              /\ \A p \in DOMAIN TotalLines(lines) :
                    TotalLines(lines)[p].size = format_file_size(saved)
              /\ last.op \in {"create_deletion_checklist", "get_deletion_instructions"}
                    => last.ret \in {create_deletion_checklist(Finder, files),
                                     get_deletion_instructions(Finder, files)}

\* The checklist returned for two groups of files of different sizes, with
\* one file to delete of each.
C30_Witness ==
    /\ last.op = "create_deletion_checklist"
    /\ Len(ExactGroups) = 2
    /\ Len(get_deletion_recommendations) = 2
    /\ files[ExactGroups[1][1]].size # files[ExactGroups[2][1]].size
    /\ Len(TotalLines(last.ret)) = 2

====
